---- MODULE Spec2Model ----
(***************************************************************************)
(* Model of the JSON highlighter of CrabIce (src/json_highlighter.rs):     *)
(* the per-line tokenizer, the search/current-match overlay compositor     *)
(* and the highlighter session (new / update / change_line /               *)
(* highlight_line / current_line), and of the search engine of the         *)
(* application (src/main.rs): find_matches, position_to_line_col and the   *)
(* handlers of update that read or write the search state, the tabs and    *)
(* the requests, with the tasks of send_request and the stream of a        *)
(* websocket subscription.                                                 *)
(*                                                                         *)
(* Spec is the highlighter session with search overlays, TokSpec the       *)
(* session on longer lines without overlays, DetSpec the session with the  *)
(* history of its repeated calls, SearchSpec the search engine, PosSpec    *)
(* position_to_line_col for any offset, AppSpec the find dialog of the     *)
(* application, TabSpec the tab bar, ReqSpec the requests of one tab,      *)
(* RouteSpec the requests of several tabs, WsSpec the websocket stream     *)
(* and WsLiveSpec that stream polled for as long as it can go on.          *)
(*                                                                         *)
(* A line is a sequence of one-character strings.  Span offsets are the    *)
(* 0-based character indices of the code, so chars[i] of the code is       *)
(* chars[i + 1] here.                                                      *)
(***************************************************************************)
EXTENDS Integers, Sequences, FiniteSets, TLC

\* ---------------------------------------------------------------- bounds

\* Longest line handed to highlight_line.
MaxLineLen == 3
\* Largest column stored in a match position.
MaxCol == 1
\* Largest number of entries of settings.search_matches.
MaxMatches == 2
\* Largest settings.match_length.
MaxMatchLen == 2

\* ------------------------------------------------------- theme and colour

\* A Color is <<r, g, b>> in hundredths (Color::from_rgb(0.51, 0.58, 0.0)
\* is <<51, 58, 0>>).
WHITE == <<100, 100, 100>>
BLACK == <<0, 0, 0>>

DEFAULT_DARK ==
    [key |-> <<40, 76, 94>>, string |-> <<73, 87, 53>>, number |-> <<88, 73, 53>>,
     boolean |-> <<86, 47, 65>>, null |-> <<86, 47, 65>>,
     punctuation |-> <<80, 80, 80>>, text |-> WHITE]

DEFAULT_LIGHT ==
    [key |-> <<0, 33, 80>>, string |-> <<13, 54, 13>>, number |-> <<80, 40, 0>>,
     boolean |-> <<60, 0, 60>>, null |-> <<60, 0, 60>>,
     punctuation |-> <<30, 30, 30>>, text |-> BLACK]

VSCODE_DARK ==
    [key |-> <<61, 82, 96>>, string |-> <<81, 71, 58>>, number |-> <<71, 86, 65>>,
     boolean |-> <<34, 63, 83>>, null |-> <<34, 63, 83>>,
     punctuation |-> <<85, 85, 85>>, text |-> <<85, 85, 85>>]

\* JsonThemeWrapper::Builtin(theme) and JsonThemeWrapper::Custom(custom).
Builtin(theme) == [tag |-> "Builtin", theme |-> theme]
Custom(custom) == [tag |-> "Custom", custom |-> custom]

\* JsonThemeWrapper::ALL
ALL ==
    {Builtin("Base16Eighties"), Builtin("Base16Mocha"), Builtin("Base16Ocean"),
     Builtin("SolarizedDark"), Builtin("InspiredGitHub"),
     Custom(DEFAULT_DARK), Custom(DEFAULT_LIGHT), Custom(VSCODE_DARK)}

builtin_key_color(theme) ==
    IF theme = "SolarizedDark" THEN <<51, 58, 0>> ELSE <<40, 76, 94>>
builtin_string_color(theme) ==
    IF theme = "SolarizedDark" THEN <<16, 63, 60>> ELSE <<73, 87, 53>>
builtin_number_color(theme) ==
    IF theme = "SolarizedDark" THEN <<80, 29, 9>> ELSE <<88, 73, 53>>
builtin_boolean_color(theme) ==
    IF theme = "SolarizedDark" THEN <<83, 21, 51>> ELSE <<86, 47, 65>>
builtin_null_color(theme) == builtin_boolean_color(theme)
builtin_punctuation_color(theme) ==
    IF theme = "SolarizedDark" THEN <<58, 63, 63>> ELSE <<80, 80, 80>>
builtin_text_color(theme) ==
    IF theme = "SolarizedDark" THEN <<58, 63, 63>> ELSE WHITE

key_color(t) ==
    IF t.tag = "Builtin" THEN builtin_key_color(t.theme) ELSE t.custom.key
string_color(t) ==
    IF t.tag = "Builtin" THEN builtin_string_color(t.theme) ELSE t.custom.string
number_color(t) ==
    IF t.tag = "Builtin" THEN builtin_number_color(t.theme) ELSE t.custom.number
boolean_color(t) ==
    IF t.tag = "Builtin" THEN builtin_boolean_color(t.theme) ELSE t.custom.boolean
null_color(t) ==
    IF t.tag = "Builtin" THEN builtin_null_color(t.theme) ELSE t.custom.null
punctuation_color(t) ==
    IF t.tag = "Builtin" THEN builtin_punctuation_color(t.theme)
    ELSE t.custom.punctuation
text_color(t) ==
    IF t.tag = "Builtin" THEN builtin_text_color(t.theme) ELSE t.custom.text

\* enum JsonToken
JsonToken == {"Key", "String", "Number", "Boolean", "Null", "Punctuation", "Whitespace"}

\* JsonHighlighter::token_color, for the theme of the session's settings.
token_color(theme, token) ==
    CASE token = "Key" -> key_color(theme)
      [] token = "String" -> string_color(theme)
      [] token = "Number" -> number_color(theme)
      [] token = "Boolean" -> boolean_color(theme)
      [] token = "Null" -> null_color(theme)
      [] token = "Punctuation" -> punctuation_color(theme)
      [] token = "Whitespace" -> text_color(theme)

\* enum HighlightType
Syntax(color) == [kind |-> "Syntax", color |-> color]
SearchMatch == [kind |-> "SearchMatch", color |-> <<>>]
CurrentMatch == [kind |-> "CurrentMatch", color |-> <<>>]

\* One element (Range<usize>, HighlightType) of the highlights vector.
Span(start, end, hl) == [start |-> start, end |-> end, hl |-> hl]

\* ------------------------------------------------------------- tokenizer

\* The characters of the lines the model highlights.
DQUOTE == "\""
BACKSLASH == "\\"
Chars == {DQUOTE, ":", " "}

\* char::is_whitespace, on the characters of the model.
is_whitespace(c) == c \in {" ", "\t"}

\* The inner loop of the '"' arm without the backslash rule: the first quote
\* ends the string.
RECURSIVE ScanString_NoEscape(_, _)
ScanString_NoEscape(chars, i) ==
    LET len == Len(chars) IN
    IF ~(i < len) THEN i
    ELSE IF chars[i + 1] = DQUOTE THEN i + 1
    ELSE ScanString_NoEscape(chars, i + 1)

\* The inner loop of the '"' arm with a backslash that consumes two
\* positions even when it is the last character of the line.
RECURSIVE ScanString_SkipsPastEnd(_, _)
ScanString_SkipsPastEnd(chars, i) ==
    LET len == Len(chars) IN
    IF ~(i < len) THEN i
    ELSE IF chars[i + 1] = BACKSLASH THEN ScanString_SkipsPastEnd(chars, i + 2)
    ELSE IF chars[i + 1] = DQUOTE THEN i + 1
    ELSE ScanString_SkipsPastEnd(chars, i + 1)

\* The inner loop of the '"' arm: from position i (just after the opening
\* quote) to the position after the closing quote, or to len.
RECURSIVE ScanString(_, _)
ScanString(chars, i) ==
    LET len == Len(chars) IN
    IF ~(i < len) THEN i
    ELSE IF chars[i + 1] = BACKSLASH /\ i + 1 < len THEN ScanString(chars, i + 2)
    ELSE IF chars[i + 1] = DQUOTE THEN i + 1
    ELSE ScanString(chars, i + 1)

\* STEP 1 of highlight_line with a ',' that leaves the key/value context as
\* it is.
RECURSIVE SyntaxLoop_CommaKeepsContext(_, _, _, _, _)
SyntaxLoop_CommaKeepsContext(theme, chars, i, current_context_is_key, highlights) ==
    LET len == Len(chars) IN
    IF ~(i < len) THEN highlights
    ELSE
      LET ch == chars[i + 1]
          start == i
      IN
      CASE ch = DQUOTE ->
             LET j == ScanString(chars, i + 1)
                 token == IF current_context_is_key THEN "Key" ELSE "String"
             IN SyntaxLoop_CommaKeepsContext(theme, chars, j, current_context_is_key,
                    Append(highlights, Span(start, j, Syntax(token_color(theme, token)))))
        [] ch = ":" ->
             SyntaxLoop_CommaKeepsContext(theme, chars, i + 1, FALSE,
                 Append(highlights,
                     Span(start, i + 1, Syntax(token_color(theme, "Punctuation")))))
        [] ch \in {",", "{", "}", "[", "]"} ->
             SyntaxLoop_CommaKeepsContext(theme, chars, i + 1, current_context_is_key,
                 Append(highlights,
                     Span(start, i + 1, Syntax(token_color(theme, "Punctuation")))))
        [] OTHER ->
             SyntaxLoop_CommaKeepsContext(theme, chars, i + 1, current_context_is_key,
                 highlights)

\* STEP 1 of highlight_line: the while loop over the characters, from
\* position i with the key/value context and the highlights pushed so far.
RECURSIVE SyntaxLoop(_, _, _, _, _)
SyntaxLoop(theme, chars, i, current_context_is_key, highlights) ==
    LET len == Len(chars) IN
    IF ~(i < len) THEN highlights
    ELSE
      LET ch == chars[i + 1]
          start == i
      IN
      CASE ch = DQUOTE ->
             LET j == ScanString(chars, i + 1)
                 token == IF current_context_is_key THEN "Key" ELSE "String"
             IN SyntaxLoop(theme, chars, j, current_context_is_key,
                    Append(highlights, Span(start, j, Syntax(token_color(theme, token)))))
        [] ch = ":" ->
             SyntaxLoop(theme, chars, i + 1, FALSE,
                 Append(highlights,
                     Span(start, i + 1, Syntax(token_color(theme, "Punctuation")))))
        [] ch \in {",", "{", "}", "[", "]"} ->
             SyntaxLoop(theme, chars, i + 1,
                 IF ch = "," THEN TRUE ELSE current_context_is_key,
                 Append(highlights,
                     Span(start, i + 1, Syntax(token_color(theme, "Punctuation")))))
        [] ch \notin {DQUOTE, ":", ",", "{", "}", "[", "]"} /\ is_whitespace(ch) ->
             SyntaxLoop(theme, chars, i + 1, current_context_is_key, highlights)
        [] OTHER ->
             SyntaxLoop(theme, chars, i + 1, current_context_is_key, highlights)

\* ------------------------------------------------------------ compositor

\* What the drain loop of apply_search_highlight pushes for one existing
\* highlight: the highlight itself when it does not overlap range, else
\* the part before, the overlapping part with highlight_type, the part after.
SplitExisting_KeepsType(existing, range, highlight_type) ==
    IF existing.end <= range.start \/ existing.start >= range.end
    THEN <<existing>>
    ELSE
      LET overlap_start == IF existing.start >= range.start THEN existing.start
                           ELSE range.start
          overlap_end == IF existing.end <= range.end THEN existing.end
                         ELSE range.end
      IN (IF existing.start < range.start
          THEN <<Span(existing.start, range.start, existing.hl)>> ELSE <<>>)
         \o <<Span(overlap_start, overlap_end, existing.hl)>>
         \o (IF existing.end > range.end
             THEN <<Span(range.end, existing.end, existing.hl)>> ELSE <<>>)

SplitExisting(existing, range, highlight_type) ==
    IF existing.end <= range.start \/ existing.start >= range.end
    THEN <<existing>>
    ELSE
      LET overlap_start == IF existing.start >= range.start THEN existing.start
                           ELSE range.start
          overlap_end == IF existing.end <= range.end THEN existing.end
                         ELSE range.end
      IN (IF existing.start < range.start
          THEN <<Span(existing.start, range.start, existing.hl)>> ELSE <<>>)
         \o <<Span(overlap_start, overlap_end, highlight_type)>>
         \o (IF existing.end > range.end
             THEN <<Span(range.end, existing.end, existing.hl)>> ELSE <<>>)

RECURSIVE DrainLoop(_, _, _)
DrainLoop(highlights, range, highlight_type) ==
    IF highlights = <<>> THEN <<>>
    ELSE SplitExisting(Head(highlights), range, highlight_type)
         \o DrainLoop(Tail(highlights), range, highlight_type)

\* JsonHighlighter::apply_search_highlight; range is [start |-> , end |-> ].
apply_search_highlight(highlights, range, highlight_type) ==
    LET new_highlights == DrainLoop(highlights, range, highlight_type)
        covered == \E k \in 1..Len(highlights) :
                       ~(highlights[k].end <= range.start
                         \/ highlights[k].start >= range.end)
    IN IF ~covered
       THEN Append(new_highlights, Span(range.start, range.end, highlight_type))
       ELSE new_highlights

\* The line check of highlight_line before an overlay is applied.
OnActualLine_Any(line_num, actual_line) == TRUE
OnActualLine(line_num, actual_line) == line_num = actual_line

\* The bounds check of highlight_line before an overlay is applied.
InBounds_Off(col_end, len) == TRUE
InBounds(col_end, len) == col_end <= len

\* The loop of highlight_line over settings.search_matches.
RECURSIVE ApplySearchMatches(_, _, _, _, _)
ApplySearchMatches(highlights, search_matches, match_length, actual_line, len) ==
    IF search_matches = <<>> THEN highlights
    ELSE
      LET line_num == Head(search_matches)[1]
          col_start == Head(search_matches)[2]
          col_end == col_start + match_length
          next == IF OnActualLine(line_num, actual_line) /\ InBounds(col_end, len)
                  THEN apply_search_highlight(highlights,
                           [start |-> col_start, end |-> col_end], SearchMatch)
                  ELSE highlights
      IN ApplySearchMatches(next, Tail(search_matches), match_length, actual_line, len)

\* Option<(usize, usize)>::None
None == <<>>

\* The current-match step of highlight_line.
ApplyCurrentMatch(highlights, current_match, match_length, actual_line, len) ==
    IF current_match = None THEN highlights
    ELSE
      LET line_num == current_match[1]
          col_start == current_match[2]
          col_end == col_start + match_length
      IN IF OnActualLine(line_num, actual_line) /\ InBounds(col_end, len)
         THEN apply_search_highlight(highlights,
                  [start |-> col_start, end |-> col_end], CurrentMatch)
         ELSE highlights

\* Vec::sort_by_key(|(range, _)| range.start): a stable sort by start.
RECURSIVE InsertByStart(_, _)
InsertByStart(sorted, x) ==
    IF sorted = <<>> THEN <<x>>
    ELSE IF Head(sorted).start <= x.start
         THEN <<Head(sorted)>> \o InsertByStart(Tail(sorted), x)
         ELSE <<x>> \o sorted

SortByStart_Skipped(highlights) == highlights

RECURSIVE SortByStart(_)
SortByStart(highlights) ==
    IF highlights = <<>> THEN <<>>
    ELSE InsertByStart(SortByStart(SubSeq(highlights, 1, Len(highlights) - 1)),
                       highlights[Len(highlights)])

\* highlight_line with the current match applied before the search matches.
highlight_line_CurrentFirst(line, actual_line, settings) ==
    IF line = <<>> THEN <<>>
    ELSE
      LET len == Len(line)
          syntax == SyntaxLoop(settings.theme, line, 0, TRUE, <<>>)
          current == ApplyCurrentMatch(syntax, settings.current_match,
                         settings.match_length, actual_line, len)
          searched == ApplySearchMatches(current, settings.search_matches,
                          settings.match_length, actual_line, len)
      IN SortByStart(searched)

\* highlight_line without the early return for the empty line.
highlight_line_NoEmptyCheck(line, actual_line, settings) ==
    LET len == Len(line)
        syntax == SyntaxLoop(settings.theme, line, 0, TRUE, <<>>)
        searched == ApplySearchMatches(syntax, settings.search_matches,
                        settings.match_length, actual_line, len)
        current == ApplyCurrentMatch(searched, settings.current_match,
                       settings.match_length, actual_line, len)
    IN SortByStart(current)

\* JsonHighlighter::highlight_line: the spans it returns for line, with the
\* session at line actual_line and holding settings.
highlight_line(line, actual_line, settings) ==
    IF line = <<>> THEN <<>>
    ELSE
      LET len == Len(line)
          syntax == SyntaxLoop(settings.theme, line, 0, TRUE, <<>>)
          searched == ApplySearchMatches(syntax, settings.search_matches,
                          settings.match_length, actual_line, len)
          current == ApplyCurrentMatch(searched, settings.current_match,
                         settings.match_length, actual_line, len)
      IN SortByStart(current)

\* --------------------------------------------------------- search engine

\* A string (&str, String) is its sequence of UTF-8 bytes, and a character
\* is the sequence of the bytes that encode it.  A byte of an ASCII
\* character is written as that character, any other byte in hexadecimal.
\* Byte offsets are 0-based as in the code: byte i of the code is s[i + 1].

\* U+212A KELVIN SIGN: a letter of three bytes whose lowercase is the one
\* byte 'k'.
KELVIN == <<"E2", "84", "AA">>

\* The bytes 0x80..0xBF, which continue a character, among those of the model.
ContinuationBytes == {"84", "AA"}

\* The number of bytes of the character that begins with byte b.
len_utf8(b) == IF b = "E2" THEN 3 ELSE 1

\* str::is_char_boundary
is_char_boundary(s, index) ==
    \/ index = 0
    \/ index = Len(s)
    \/ index < Len(s) /\ s[index + 1] \notin ContinuationBytes

\* s[from..to], for offsets that are character boundaries.
Slice(s, from, to) == SubSeq(s, from + 1, to)

\* s.chars().next() of a non-empty string.
FirstChar(s) == SubSeq(s, 1, len_utf8(s[1]))

\* s.chars().last() of a non-empty string.
LastChar(s) ==
    IF s[Len(s)] \in ContinuationBytes THEN SubSeq(s, Len(s) - 2, Len(s))
    ELSE <<s[Len(s)]>>

\* The number of bytes of s in place of its number of characters.
CharCount_Bytes(s) == Len(s)

\* s.chars().count()
CharCount(s) == Cardinality({k \in 1..Len(s) : s[k] \notin ContinuationBytes})

\* char::is_alphanumeric, on the characters of the model.
is_alphanumeric(c) ==
    c \in {<<"a">>, <<"A">>, <<"c">>, <<"C">>, <<"e">>, <<"k">>, <<"r">>,
           <<"s">>, <<"t">>, KELVIN}

\* char::to_lowercase, on the characters of the model.
char_to_lowercase(c) ==
    CASE c = <<"A">> -> <<"a">>
      [] c = <<"C">> -> <<"c">>
      [] c = KELVIN -> <<"k">>
      [] OTHER -> c

\* str::to_lowercase: the lowercase of each character, in order.
RECURSIVE to_lowercase(_)
to_lowercase(s) ==
    IF s = <<>> THEN <<>>
    ELSE LET c == FirstChar(s)
         IN char_to_lowercase(c) \o to_lowercase(SubSeq(s, Len(c) + 1, Len(s)))

\* Option<usize>::Some(pos); None is <<>>.
Some(pos) == <<pos>>

\* str::find: the byte offset of the first occurrence of needle in haystack.
find(haystack, needle) ==
    LET hits == {i \in 0..(Len(haystack) - Len(needle)) :
                    SubSeq(haystack, i + 1, i + Len(needle)) = needle}
    IN IF hits = {} THEN <<>>
       ELSE Some(CHOOSE i \in hits : \A o \in hits : i <= o)

\* What a function returns: a value, or a panic (the thread unwinds and the
\* function returns nothing).
Ok(val) == [panic |-> FALSE, val |-> val]
Panicked == [panic |-> TRUE, val |-> <<>>]

\* The loops of find_matches without whole-word (case sensitive only, case
\* insensitive only), over the haystack and the needle of the branch.
RECURSIVE PlainLoop(_, _, _, _)
PlainLoop(haystack, needle, start, matches) ==
    IF ~(start <= Len(haystack) /\ is_char_boundary(haystack, start)) THEN Panicked
    ELSE
      LET pos == find(Slice(haystack, start, Len(haystack)), needle) IN
      IF pos = <<>> THEN Ok(matches)
      ELSE PlainLoop(haystack, needle, start + pos[1] + 1,
                     Append(matches, start + pos[1]))

\* The word-boundary test of the whole-word loops at abs_pos: both
\* characters are read from text, with the length of pattern.
WordBoundary(txt, pat, abs_pos) ==
    IF abs_pos # 0 /\ ~(abs_pos <= Len(txt) /\ is_char_boundary(txt, abs_pos))
    THEN Panicked
    ELSE
      LET before == abs_pos = 0
                    \/ ~is_alphanumeric(LastChar(Slice(txt, 0, abs_pos)))
          after_pos == abs_pos + Len(pat)
      IN IF after_pos < Len(txt) /\ ~is_char_boundary(txt, after_pos)
         THEN Panicked
         ELSE LET after == after_pos >= Len(txt)
                           \/ ~is_alphanumeric(
                                  FirstChar(Slice(txt, after_pos, Len(txt))))
              IN Ok(before /\ after)

\* The loops of find_matches with whole-word (case sensitive, case
\* insensitive): the occurrences are those of needle in haystack.
RECURSIVE WholeWordLoop(_, _, _, _, _, _)
WholeWordLoop(txt, pat, haystack, needle, start, matches) ==
    IF ~(start <= Len(haystack) /\ is_char_boundary(haystack, start)) THEN Panicked
    ELSE
      LET pos == find(Slice(haystack, start, Len(haystack)), needle) IN
      IF pos = <<>> THEN Ok(matches)
      ELSE
        LET abs_pos == start + pos[1]
            word == WordBoundary(txt, pat, abs_pos)
        IN IF word.panic THEN Panicked
           ELSE WholeWordLoop(txt, pat, haystack, needle, abs_pos + 1,
                    IF word.val THEN Append(matches, abs_pos) ELSE matches)

\* find_matches without the early return for the empty pattern.
find_matches_NoEmptyCheck(txt, pat, cs, ww) ==
    IF cs
    THEN IF ww THEN WholeWordLoop(txt, pat, txt, pat, 0, <<>>)
         ELSE PlainLoop(txt, pat, 0, <<>>)
    ELSE LET text_lower == to_lowercase(txt)
             pattern_lower == to_lowercase(pat)
         IN IF ww THEN WholeWordLoop(txt, pat, text_lower, pattern_lower, 0, <<>>)
            ELSE PlainLoop(text_lower, pattern_lower, 0, <<>>)

\* CrabiPie::find_matches(&self, text, pattern), with self.case_sensitive
\* and self.whole_word as cs and ww.
find_matches(txt, pat, cs, ww) ==
    IF pat = <<>> THEN Ok(<<>>)
    ELSE IF cs
    THEN IF ww THEN WholeWordLoop(txt, pat, txt, pat, 0, <<>>)
         ELSE PlainLoop(txt, pat, 0, <<>>)
    ELSE LET text_lower == to_lowercase(txt)
             pattern_lower == to_lowercase(pat)
         IN IF ww THEN WholeWordLoop(txt, pat, text_lower, pattern_lower, 0, <<>>)
            ELSE PlainLoop(text_lower, pattern_lower, 0, <<>>)

\* The end of the segment of text.split_inclusive('\n') that begins at
\* line_start_byte: after its newline, or the end of the text.
RECURSIVE SegmentEnd(_, _)
SegmentEnd(txt, from) ==
    IF from >= Len(txt) THEN Len(txt)
    ELSE IF txt[from + 1] = "\n" THEN from + 1
    ELSE SegmentEnd(txt, from + 1)

\* The loop of position_to_line_col that does not count the lines it passes.
RECURSIVE SegmentLoop_LineNotCounted(_, _, _, _)
SegmentLoop_LineNotCounted(txt, byte_pos, line_idx, line_start_byte) ==
    IF line_start_byte >= Len(txt) THEN Ok(<<0, 0>>)
    ELSE
      LET line_end_byte == SegmentEnd(txt, line_start_byte) IN
      IF byte_pos >= line_start_byte /\ byte_pos < line_end_byte
      THEN IF ~is_char_boundary(Slice(txt, line_start_byte, line_end_byte),
                                byte_pos - line_start_byte)
           THEN Panicked
           ELSE Ok(<<line_idx, CharCount(Slice(txt, line_start_byte, byte_pos))>>)
      ELSE SegmentLoop_LineNotCounted(txt, byte_pos, line_idx, line_end_byte)

\* The loop of position_to_line_col whose segments include their end offset.
RECURSIVE SegmentLoop_EndInclusive(_, _, _, _)
SegmentLoop_EndInclusive(txt, byte_pos, line_idx, line_start_byte) ==
    IF line_start_byte >= Len(txt) THEN Ok(<<0, 0>>)
    ELSE
      LET line_end_byte == SegmentEnd(txt, line_start_byte) IN
      IF byte_pos >= line_start_byte /\ byte_pos <= line_end_byte
      THEN IF ~is_char_boundary(Slice(txt, line_start_byte, line_end_byte),
                                byte_pos - line_start_byte)
           THEN Panicked
           ELSE Ok(<<line_idx, CharCount(Slice(txt, line_start_byte, byte_pos))>>)
      ELSE SegmentLoop_EndInclusive(txt, byte_pos, line_idx + 1, line_end_byte)

\* The loop of position_to_line_col whose column is a number of bytes.
RECURSIVE SegmentLoop_ByteColumn(_, _, _, _)
SegmentLoop_ByteColumn(txt, byte_pos, line_idx, line_start_byte) ==
    IF line_start_byte >= Len(txt) THEN Ok(<<0, 0>>)
    ELSE
      LET line_end_byte == SegmentEnd(txt, line_start_byte) IN
      IF byte_pos >= line_start_byte /\ byte_pos < line_end_byte
      THEN IF ~is_char_boundary(Slice(txt, line_start_byte, line_end_byte),
                                byte_pos - line_start_byte)
           THEN Panicked
           ELSE Ok(<<line_idx, byte_pos - line_start_byte>>)
      ELSE SegmentLoop_ByteColumn(txt, byte_pos, line_idx + 1, line_end_byte)

\* The loop of position_to_line_col over the segments, from the segment
\* that begins at line_start_byte.
RECURSIVE SegmentLoop(_, _, _, _)
SegmentLoop(txt, byte_pos, line_idx, line_start_byte) ==
    IF line_start_byte >= Len(txt) THEN Ok(<<0, 0>>)
    ELSE
      LET line_end_byte == SegmentEnd(txt, line_start_byte) IN
      IF byte_pos >= line_start_byte /\ byte_pos < line_end_byte
      THEN IF ~is_char_boundary(Slice(txt, line_start_byte, line_end_byte),
                                byte_pos - line_start_byte)
           THEN Panicked
           ELSE Ok(<<line_idx, CharCount(Slice(txt, line_start_byte, byte_pos))>>)
      ELSE SegmentLoop(txt, byte_pos, line_idx + 1, line_end_byte)

\* CrabiPie::position_to_line_col(text, byte_pos)
position_to_line_col(txt, byte_pos) == SegmentLoop(txt, byte_pos, 0, 0)

\* find_next: matches.iter().map(|&pos| position_to_line_col(&text, pos)),
\* which panics when one of the calls does.
RECURSIVE MapPositions(_, _)
MapPositions(txt, offsets) ==
    IF offsets = <<>> THEN Ok(<<>>)
    ELSE LET head == position_to_line_col(txt, Head(offsets))
             rest == MapPositions(txt, Tail(offsets))
         IN IF head.panic \/ rest.panic THEN Panicked
            ELSE Ok(<<head.val>> \o rest.val)

\* --------------------------------------------------------------- session

\* The line numbers handed to change_line or stored in a match position.
\* The code only compares line numbers for equality, so two of them show
\* every case: a match of the current line and a match of another line.
LineNumbers == {0, 1}
OtherLine == CHOOSE n \in LineNumbers : n # 0

\* Match positions (line, col) and match lists of the model: every column of
\* line 0, and column 0 of the other line.
Positions == {p \in LineNumbers \X (0..MaxCol) : p[1] = 0 \/ p[2] = 0}
MatchLists == UNION {[1..k -> Positions] : k \in 0..MaxMatches}

\* The theme the application starts with (CrabiPie::new), which the
\* sessions are constructed with.
InitialTheme == Custom(VSCODE_DARK)

\* The themes of the modelled sessions: the initial custom palette, and a
\* built-in theme with its own colours that update switches to.
SessionThemes == {InitialTheme, Builtin("SolarizedDark")}

\* struct JsonHighlighterSettings, over the bounded domains.
SettingsDomain ==
    [theme : SessionThemes, search_matches : MatchLists,
     current_match : {None} \cup Positions, match_length : 0..MaxMatchLen]

\* The settings handed to new: any match list, current match and match
\* length, with the initial theme.
NewDomain == {s \in SettingsDomain : s.theme = InitialTheme}

\* The settings handed to update: either theme, at most one match, the
\* current match unset or that match.
UpdateDomain ==
    {s \in SettingsDomain :
        /\ Len(s.search_matches) <= 1
        /\ s.current_match \in {None} \cup {s.search_matches[k] : k \in 1..Len(s.search_matches)}}

\* The lines handed to highlight_line.
Lines == UNION {[1..k -> Chars] : k \in 0..MaxLineLen}

VARIABLES
    current_line_number,  \* JsonHighlighter.current_line_number
    settings,             \* JsonHighlighter.settings
    op,                   \* the operation that has just returned to the
                          \* caller, "idle" once the caller is done with it
    line,                 \* the argument of the highlight_line call that has
                          \* just returned, else <<>>
    ret,                  \* the spans of the iterator it returned, else <<>>
    given,                \* history: the settings given to new or the last update
    changed               \* history: <<n>> for the last change_line(n), else <<>>

vars == <<current_line_number, settings, op, line, ret, given, changed>>

\* The rest of the state: the search engine of the application
\* (src/main.rs), which the highlighter session neither reads nor writes.
VARIABLES
    case_sensitive,       \* CrabiPie.case_sensitive
    whole_word,           \* CrabiPie.whole_word
    text,                 \* the text searched, as UTF-8 bytes
    pattern,              \* the pattern searched for, as UTF-8 bytes
    fn,                   \* the function of the search engine that returned last
    matches,              \* what find_matches returned
    match_positions,      \* what position_to_line_col returned for each match
    first                 \* history: the first highlight_line call since the last
                          \* new, update or change_line: its line and its result

\* One call of position_to_line_col on its own.
VARIABLES
    byte_pos,             \* the offset handed to position_to_line_col
    line_col              \* what it returned for byte_pos in text

pos_vars == <<byte_pos, line_col>>

\* The search state of the application and the text it searches.
VARIABLES
    tabs,                 \* CrabiPie.tabs: the TabState of each tab, its
                          \* texts as UTF-8 bytes
    cancel_flags,         \* the AtomicBool behind each Arc<AtomicBool>
    active_tab,           \* CrabiPie.active_tab, an index from 0
    find_dialog_open,     \* CrabiPie.find_dialog_open
    find_text,            \* CrabiPie.find_text, as UTF-8 bytes
    current_match,        \* CrabiPie.current_match
    current_match_pos,    \* CrabiPie.current_match_pos
    total_matches,        \* CrabiPie.total_matches
    search_match_positions,  \* CrabiPie.search_match_positions
    current_match_line_col,  \* CrabiPie.current_match_line_col
    search_match_length,  \* CrabiPie.search_match_length
    panicked,             \* update has panicked: the process has ended
    msg                   \* the message update handled in the last step,
                          \* "none" when the last step was not one of update

app_vars ==
    <<tabs, cancel_flags, active_tab, find_dialog_open, find_text, current_match,
      current_match_pos, total_matches, search_match_positions,
      current_match_line_col, search_match_length, panicked, msg>>

\* The runtime that runs the tasks update returns.
VARIABLES
    tasks,                \* the request tasks of send_request that are running
    inbox                 \* the results of the finished tasks, each on its
                          \* way to update as a Message::ResponseReceived

runtime_vars == <<tasks, inbox>>

\* The stream of a websocket subscription.
VARIABLES
    ws_state,             \* the WebSocketState the unfold holds
    retry_count,          \* the u8 the unfold holds beside it
    ws_yielded,           \* the messages the stream has yielded, in order
    ws_connects,          \* the calls of connect_ws made so far
    ws_ended              \* the stream has returned None

ws_vars == <<ws_state, retry_count, ws_yielded, ws_connects, ws_ended>>

search_vars ==
    <<case_sensitive, whole_word, text, pattern, fn, matches, match_positions,
      pos_vars, app_vars, runtime_vars, ws_vars>>

all_vars == <<vars, search_vars, first>>

\* The session is free for the next call.  Every operation takes &mut self
\* (current_line takes &self), so calls do not overlap, and the iterator
\* highlight_line returns borrows the session (Self::Iterator<'_>): no
\* other operation can be called before the caller has consumed and
\* dropped it.
Idle == op = "idle"

\* Highlighter::new(settings)
Init ==
    /\ settings \in NewDomain
    /\ current_line_number = 0
    /\ op = "new"
    /\ line = <<>>
    /\ ret = <<>>
    /\ given = settings
    /\ changed = <<>>

\* update that keeps the old match positions when the new list is empty.
Update_KeepsMatches(new_settings) ==
    /\ Idle
    /\ settings' = [new_settings EXCEPT !.search_matches =
                        IF new_settings.search_matches = <<>>
                        THEN settings.search_matches ELSE @]
    /\ op' = "update"
    /\ line' = <<>>
    /\ ret' = <<>>
    /\ given' = new_settings
    /\ UNCHANGED <<current_line_number, changed>>

\* update that takes the new search information and keeps the old theme.
Update_KeepsTheme(new_settings) ==
    /\ Idle
    /\ settings' = [new_settings EXCEPT !.theme = settings.theme]
    /\ op' = "update"
    /\ line' = <<>>
    /\ ret' = <<>>
    /\ given' = new_settings
    /\ UNCHANGED <<current_line_number, changed>>

\* Highlighter::update(new_settings)
Update(new_settings) ==
    /\ Idle
    /\ settings' = new_settings
    /\ op' = "update"
    /\ line' = <<>>
    /\ ret' = <<>>
    /\ given' = new_settings
    /\ UNCHANGED <<current_line_number, changed>>

\* change_line that does not store the line.
ChangeLine_Ignored(n) ==
    /\ Idle
    /\ current_line_number' = current_line_number
    /\ op' = "change_line"
    /\ line' = <<>>
    /\ ret' = <<>>
    /\ changed' = <<n>>
    /\ UNCHANGED <<settings, given>>

\* Highlighter::change_line(n)
ChangeLine(n) ==
    /\ Idle
    /\ current_line_number' = n
    /\ op' = "change_line"
    /\ line' = <<>>
    /\ ret' = <<>>
    /\ changed' = <<n>>
    /\ UNCHANGED <<settings, given>>

\* highlight_line whose key/value context is only reset by new, update and
\* change_line: once a line has been highlighted, the next one starts in
\* the value context.
HighlightLine_CarriesContext(l) ==
    /\ Idle
    /\ ret' = IF l = <<>> THEN <<>>
              ELSE SortByStart(
                     ApplyCurrentMatch(
                       ApplySearchMatches(
                         SyntaxLoop(settings.theme, l, 0, first = <<>>, <<>>),
                         settings.search_matches, settings.match_length,
                         current_line_number, Len(l)),
                       settings.current_match, settings.match_length,
                       current_line_number, Len(l)))
    /\ op' = "highlight_line"
    /\ line' = l
    /\ UNCHANGED <<current_line_number, settings, given, changed>>

\* highlight_line that advances the current line after highlighting it.
HighlightLine_Advances(l) ==
    /\ Idle
    /\ ret' = highlight_line(l, current_line_number, settings)
    /\ op' = "highlight_line"
    /\ line' = l
    /\ current_line_number' = IF current_line_number + 1 \in LineNumbers
                               THEN current_line_number + 1 ELSE current_line_number
    /\ UNCHANGED <<settings, given, changed>>

\* Highlighter::highlight_line(l)
HighlightLine(l) ==
    /\ Idle
    /\ ret' = highlight_line(l, current_line_number, settings)
    /\ op' = "highlight_line"
    /\ line' = l
    /\ UNCHANGED <<current_line_number, settings, given, changed>>

\* The caller is done with the operation that has just returned; after
\* highlight_line it has consumed the iterator and dropped it, which ends
\* the borrow of the session.
Return ==
    /\ ~Idle
    /\ op' = "idle"
    /\ line' = <<>>
    /\ ret' = <<>>
    /\ UNCHANGED <<current_line_number, settings, given, changed>>

\* Highlighter::current_line()
current_line == current_line_number

\* Largest number of tabs while texts are searched or requests are sent.
MaxTabs == 2

\* Largest number of tabs while tabs are only added, selected and closed.
MaxOpenTabs == 4

\* Largest number of requests in flight, tasks running and results
\* waiting, while there is one tab.
MaxTasks == 2

\* Largest number of requests in flight while there are several tabs.
MaxRouted == 1

\* The allocations of Arc::new(AtomicBool): one for each tab and one more
\* for each task that may outlive the tab that started it.
Refs == 0..(MaxOpenTabs + MaxTasks - 1)

\* The URL of a new tab.
DefaultUrl ==
    <<"h", "t", "t", "p", "s", ":", "/", "/",
      "j", "s", "o", "n", "p", "l", "a", "c", "e", "h", "o", "l", "d", "e", "r", ".",
      "t", "y", "p", "i", "c", "o", "d", "e", ".", "c", "o", "m", "/", "p", "o", "s", "t", "s">>

\* TabState::new, for the fields of the request and of the response;
\* cancel_flag is the allocation Arc::new(AtomicBool::new(false)) returned.
TabState_new(cancel_flag) ==
    [cancel_flag |-> cancel_flag,
     url |-> DefaultUrl,
     loading |-> FALSE,
     response_status |-> "",
     response_body_content |-> <<>>]

\* CrabiPie::new, the two flags apart: one tab with an empty response
\* body, the find dialog closed, nothing searched for and nothing found,
\* no request in flight.
NewSearchState ==
    /\ tabs = <<TabState_new(0)>>
    /\ cancel_flags = [r \in Refs |-> FALSE]
    /\ tasks = <<>>
    /\ inbox = <<>>
    /\ active_tab = 0
    /\ find_dialog_open = FALSE
    /\ find_text = <<>>
    /\ current_match = 0
    /\ current_match_pos = None
    /\ total_matches = 0
    /\ search_match_positions = <<>>
    /\ current_match_line_col = None
    /\ search_match_length = 0
    /\ panicked = FALSE
    /\ msg = "none"

\* websocket_stream has been called and the stream not polled yet: the
\* unfold starts from (WebSocketState::Disconnected, 0).
NoStream ==
    /\ ws_state = "Disconnected"
    /\ retry_count = 0
    /\ ws_yielded = <<>>
    /\ ws_connects = 0
    /\ ws_ended = FALSE

\* No call of position_to_line_col has been made.
NoPosition ==
    /\ byte_pos = 0
    /\ line_col = Ok(<<0, 0>>)

\* The search engine before any search: CrabiPie::new leaves both flags off.
SearchInit ==
    /\ case_sensitive = FALSE
    /\ whole_word = FALSE
    /\ NewSearchState
    /\ NoPosition
    /\ NoStream
    /\ text = <<>>
    /\ pattern = <<>>
    /\ fn = "none"
    /\ matches = Ok(<<>>)
    /\ match_positions = Ok(<<>>)

\* The highlighter session on its own: the search engine stays as it is.
\* A call is made when the session is free, which every operation requires.
Next ==
    \/ Idle /\ \E new_settings \in UpdateDomain :
          Update(new_settings) /\ UNCHANGED <<search_vars, first>>
    \/ Idle /\ \E n \in LineNumbers :
          ChangeLine(n) /\ UNCHANGED <<search_vars, first>>
    \/ Idle /\ \E l \in Lines :
          HighlightLine(l) /\ UNCHANGED <<search_vars, first>>
    \/ Return /\ UNCHANGED <<search_vars, first>>

\* A session constructed by new, beside a search engine that has not searched.
SessionInit == Init /\ SearchInit /\ first = <<>>

Spec == SessionInit /\ [][Next]_all_vars

\* ------------------------------------------------- tokenizer on its own

\* Longest line of the tokenizer runs, the example lines apart.
MaxTokLineLen == 5

\* The characters of those lines: the quote, the backslash, the two
\* punctuation characters that switch the key/value context, and a digit.
TokChars == {DQUOTE, BACKSLASH, ":", ",", "1"}

\* The line "key": "a\"b" of the escaped-quote example.
EscapedQuoteLine ==
    <<DQUOTE, "k", "e", "y", DQUOTE, ":", " ",
      DQUOTE, "a", BACKSLASH, DQUOTE, "b", DQUOTE>>

\* The line {"a": 1, "b": 2} of the key/value example.
KeyValueLine ==
    <<"{", DQUOTE, "a", DQUOTE, ":", " ", "1", ",", " ",
      DQUOTE, "b", DQUOTE, ":", " ", "2", "}">>

\* The line "a":"b","c": a key, a string value, and a key again.
ContextLine ==
    <<DQUOTE, "a", DQUOTE, ":", DQUOTE, "b", DQUOTE, ",", DQUOTE, "c", DQUOTE>>

\* Lines holding a number and the literals true, false and null as values.
NumberLine == <<"-", "1", ".", "5", "e", "+", "2", ",">>
TrueLine == <<"[", "t", "r", "u", "e", "]">>
FalseLine == <<"f", "a", "l", "s", "e">>
NullLine == <<":", " ", "n", "u", "l", "l">>

ExampleLines ==
    {EscapedQuoteLine, KeyValueLine, ContextLine, NumberLine, TrueLine, FalseLine, NullLine}

TokLines == UNION {[1..k -> TokChars] : k \in 0..MaxTokLineLen} \cup ExampleLines

\* JsonHighlighterSettings::new(theme): no search matches, no current match.
JsonHighlighterSettings_new(theme) ==
    [theme |-> theme, search_matches |-> <<>>, current_match |-> None,
     match_length |-> 0]

\* A session without search information.
TokInit ==
    /\ Init
    /\ settings = JsonHighlighterSettings_new(InitialTheme)
    /\ SearchInit
    /\ first = <<>>

\* The session highlights lines and is handed another theme.
TokNext ==
    \/ Idle /\ \E theme \in SessionThemes :
          Update(JsonHighlighterSettings_new(theme)) /\ UNCHANGED <<search_vars, first>>
    \/ Idle /\ \E l \in TokLines :
          HighlightLine(l) /\ UNCHANGED <<search_vars, first>>
    \/ Return /\ UNCHANGED <<search_vars, first>>

TokSpec == TokInit /\ [][TokNext]_all_vars

\* ------------------------------------------------------ repeated calls

\* Longest line of the runs that highlight a line more than once.
MaxDetLineLen == 2

DetLines == UNION {[1..k -> Chars] : k \in 0..MaxDetLineLen}

\* A session without search information, no line highlighted yet.
DetInit ==
    /\ Init
    /\ settings = JsonHighlighterSettings_new(InitialTheme)
    /\ SearchInit
    /\ first = <<>>

\* The session, with the history of the highlight_line calls made since the
\* last new, update or change_line: the line and the result of the first of
\* them, and whether a different line was highlighted after it.
DetNext ==
    \/ Idle /\ \E new_settings \in UpdateDomain :
          Update(new_settings) /\ first' = <<>> /\ UNCHANGED search_vars
    \/ Idle /\ \E n \in LineNumbers :
          ChangeLine(n) /\ first' = <<>> /\ UNCHANGED search_vars
    \/ Idle /\ \E l \in DetLines :
          /\ HighlightLine(l)
          /\ first' = IF first = <<>>
                      THEN [line |-> l, ret |-> ret', other |-> FALSE]
                      ELSE [first EXCEPT !.other = @ \/ l # first.line]
          /\ UNCHANGED search_vars
    \/ Return /\ UNCHANGED <<search_vars, first>>

DetSpec == DetInit /\ [][DetNext]_all_vars

\* ------------------------------------------------ search engine on its own

\* Largest number of characters of a searched text, the example apart.
MaxTextLen == 3
\* Largest number of characters of a pattern, the example apart.
MaxPatternLen == 2

\* The characters of the patterns: a lowercase and an uppercase letter, a
\* character that is not alphanumeric, and a letter of more than one byte.
PatternChars == {<<"a">>, <<"A">>, <<" ">>, KELVIN}

\* The characters of the texts: those of the patterns and the newline.
TextChars == PatternChars \cup {<<"\n">>}

\* The bytes of a sequence of characters.
RECURSIVE Utf8(_)
Utf8(cs) == IF cs = <<>> THEN <<>> ELSE Head(cs) \o Utf8(Tail(cs))

\* The text "Cat cats scatter" and the pattern "cat" of the case/whole-word
\* example.
CatText ==
    <<"C", "a", "t", " ", "c", "a", "t", "s", " ",
      "s", "c", "a", "t", "t", "e", "r">>
CatPattern == <<"c", "a", "t">>

Texts ==
    {Utf8(cs) : cs \in UNION {[1..k -> TextChars] : k \in 0..MaxTextLen}}
        \cup {CatText}
Patterns ==
    {Utf8(cs) : cs \in UNION {[1..k -> PatternChars] : k \in 0..MaxPatternLen}}
        \cup {CatPattern}

\* The inputs of a search: any text, pattern and flags; no highlighter
\* session takes part.
SearchInputs ==
    /\ Init
    /\ settings = JsonHighlighterSettings_new(InitialTheme)
    /\ first = <<>>
    /\ case_sensitive \in BOOLEAN
    /\ whole_word \in BOOLEAN
    /\ text \in Texts
    /\ pattern \in Patterns
    /\ fn = "none"
    /\ matches = Ok(<<>>)
    /\ match_positions = Ok(<<>>)
    /\ NewSearchState
    /\ NoPosition
    /\ NoStream

\* self.find_matches(&text, &self.find_text)
FindMatches ==
    /\ fn = "none"
    /\ matches' = find_matches(text, pattern, case_sensitive, whole_word)
    /\ fn' = "find_matches"
    /\ UNCHANGED <<case_sensitive, whole_word, text, pattern, match_positions>>
    /\ UNCHANGED <<vars, first, pos_vars, app_vars, runtime_vars, ws_vars>>

\* find_next and find_previous after a search that found matches: every
\* offset is converted by position_to_line_col.
ConvertMatches ==
    /\ fn = "find_matches"
    /\ ~matches.panic
    /\ matches.val # <<>>
    /\ match_positions' = MapPositions(text, matches.val)
    /\ fn' = "position_to_line_col"
    /\ UNCHANGED <<case_sensitive, whole_word, text, pattern, matches>>
    /\ UNCHANGED <<vars, first, pos_vars, app_vars, runtime_vars, ws_vars>>

SearchNext == FindMatches \/ ConvertMatches

SearchSpec == SearchInputs /\ [][SearchNext]_all_vars

\* ------------------------------------------- offset conversion on its own

\* How far beyond the end of the text an offset handed to
\* position_to_line_col lies at most.
MaxBeyond == 2

\* The inputs of a conversion: any text; nothing has been searched for and
\* no highlighter session takes part.
PosInputs ==
    /\ Init
    /\ settings = JsonHighlighterSettings_new(InitialTheme)
    /\ first = <<>>
    /\ case_sensitive = FALSE
    /\ whole_word = FALSE
    /\ text \in Texts
    /\ pattern = <<>>
    /\ fn = "none"
    /\ matches = Ok(<<>>)
    /\ match_positions = Ok(<<>>)
    /\ NewSearchState
    /\ NoPosition
    /\ NoStream

\* Self::position_to_line_col(&text, pos), for a byte offset inside the
\* text, at its end or beyond it.
PositionToLineCol(pos) ==
    /\ fn = "none"
    /\ byte_pos' = pos
    /\ line_col' = position_to_line_col(text, pos)
    /\ fn' = "position_to_line_col"
    /\ UNCHANGED <<case_sensitive, whole_word, text, pattern, matches, match_positions>>
    /\ UNCHANGED <<vars, first, app_vars, runtime_vars, ws_vars>>

PosNext == \E pos \in 0..(Len(text) + MaxBeyond) : PositionToLineCol(pos)

PosSpec == PosInputs /\ [][PosNext]_all_vars

\* ------------------------------------------------------- the find dialog

\* The response bodies: the empty text, a text whose matches depend on both
\* flags, a text of two lines, and a letter of more than one byte.
Bodies == {<<>>, <<"a", "A">>, <<"a", "\n", "a", "A">>, KELVIN}

\* The texts typed into the find input: nothing, a letter of one byte and
\* a letter of more than one byte.
FindTexts == {<<>>, <<"a">>, KELVIN}

\* The search engine's own variables, which the application does not use:
\* it searches the text of the active tab for find_text.
engine_vars == <<text, pattern, fn, matches, match_positions>>

\* The application (&mut CrabiPie), as one value.
Self ==
    [tabs |-> tabs, cancel_flags |-> cancel_flags, active_tab |-> active_tab,
     find_dialog_open |-> find_dialog_open, find_text |-> find_text,
     case_sensitive |-> case_sensitive, whole_word |-> whole_word,
     current_match |-> current_match, current_match_pos |-> current_match_pos,
     total_matches |-> total_matches,
     search_match_positions |-> search_match_positions,
     current_match_line_col |-> current_match_line_col,
     search_match_length |-> search_match_length,
     panicked |-> panicked]

\* update(app, message) has run for the message m and left the application
\* as app.  A panic in update unwinds through the event loop and ends the
\* process, so no message is handled after it.
Handled(m, app) ==
    /\ ~panicked
    /\ msg' = m
    /\ tabs' = app.tabs
    /\ cancel_flags' = app.cancel_flags
    /\ active_tab' = app.active_tab
    /\ find_dialog_open' = app.find_dialog_open
    /\ find_text' = app.find_text
    /\ case_sensitive' = app.case_sensitive
    /\ whole_word' = app.whole_word
    /\ current_match' = app.current_match
    /\ current_match_pos' = app.current_match_pos
    /\ total_matches' = app.total_matches
    /\ search_match_positions' = app.search_match_positions
    /\ current_match_line_col' = app.current_match_line_col
    /\ search_match_length' = app.search_match_length
    /\ panicked' = app.panicked

\* self.current_tab().response_body_content.text()
current_tab_text(self) == self.tabs[self.active_tab + 1].response_body_content

\* find_next, "Move to next match", with an index that stays where it is.
NextIndex_Stays(current, len) ==
    IF current = 0 \/ current >= len THEN 1 ELSE current

\* find_next, "Move to next match": the index after current among len
\* matches.
NextIndex(current, len) ==
    LET next == IF current = 0 \/ current >= len THEN 1 ELSE current + 1
    IN IF next > len THEN 1 ELSE next

\* CrabiPie::find_next(&mut self).  A panic of find_matches or of
\* position_to_line_col leaves the fields assigned before it.
find_next(self) ==
    IF ~self.find_dialog_open THEN self
    ELSE
      LET txt == current_tab_text(self)
          found == find_matches(txt, self.find_text,
                                self.case_sensitive, self.whole_word)
      IN
      IF found.panic THEN [self EXCEPT !.panicked = TRUE]
      ELSE IF found.val = <<>>
      THEN [self EXCEPT !.total_matches = 0,
                        !.current_match = 0,
                        !.current_match_pos = None,
                        !.search_match_positions = <<>>,
                        !.current_match_line_col = None,
                        !.search_match_length = 0]
      ELSE
        LET positions == MapPositions(txt, found.val) IN
        IF positions.panic
        THEN [self EXCEPT !.total_matches = Len(found.val), !.panicked = TRUE]
        ELSE
          LET index == NextIndex(self.current_match, Len(found.val)) IN
          [self EXCEPT !.total_matches = Len(found.val),
                       !.search_match_positions = positions.val,
                       !.search_match_length = CharCount(self.find_text),
                       !.current_match = index,
                       !.current_match_pos = Some(found.val[index]),
                       !.current_match_line_col = Some(positions.val[index])]

\* CrabiPie::get_highlighter_settings(&self); json_theme is the theme
\* CrabiPie::new sets.
get_highlighter_settings(self) ==
    [theme |-> InitialTheme,
     search_matches |-> self.search_match_positions,
     current_match |-> IF self.current_match_line_col = None THEN None
                       ELSE self.current_match_line_col[1],
     match_length |-> self.search_match_length]

\* The settings each text editor of the view hands to its highlighter
\* (highlight_with) when the editor is drawn: the editor of the request
\* body in render_body_tab, the editor of the response body in
\* render_response_body and the editor of the response headers in
\* render_response_headers.
render_body_tab(self) == get_highlighter_settings(self)
render_response_body(self) == get_highlighter_settings(self)
render_response_headers(self) == get_highlighter_settings(self)

\* Message::TabSelected(index), sent by the button of an existing tab.
TabSelected(index) ==
    Handled("TabSelected", [Self EXCEPT !.active_tab = index])

\* The allocations in use: those the tabs hold, those the closures of the
\* running tasks hold, and those of the tasks whose results wait.
InUse(tab_list) ==
    {tab_list[k].cancel_flag : k \in 1..Len(tab_list)}
        \cup {tasks[k].cancel_flag : k \in 1..Len(tasks)}
        \cup {inbox[k].cancel_flag : k \in 1..Len(inbox)}

\* Arc::new(AtomicBool::new(false)): an allocation nothing else holds.
Arc_new == CHOOSE r \in Refs : r \notin InUse(tabs) /\ \A q \in Refs \ InUse(tabs) : r <= q

\* Message::AddNewTab: TabState::new for the new tab, which becomes the
\* active one.
AddNewTab ==
    Handled("AddNewTab",
               [Self EXCEPT !.tabs = Append(tabs, TabState_new(Arc_new)),
                            !.cancel_flags[Arc_new] = FALSE,
                            !.active_tab = Len(tabs)])

\* CloseTab that does not bring active_tab back into the list.
CloseTab_NoClamp(index) ==
    Handled("CloseTab",
        IF Len(tabs) > 1
        THEN LET rest == SubSeq(tabs, 1, index) \o SubSeq(tabs, index + 2, Len(tabs))
             IN [Self EXCEPT !.tabs = rest,
                             !.cancel_flags =
                                 [r \in Refs |-> r \in InUse(rest) /\ cancel_flags[r]],
                             !.active_tab =
                                 IF active_tab > index THEN active_tab - 1
                                 ELSE active_tab]
        ELSE Self)

\* CloseTab that does not follow the active tab when a tab before it goes.
CloseTab_NoShift(index) ==
    Handled("CloseTab",
        IF Len(tabs) > 1
        THEN LET rest == SubSeq(tabs, 1, index) \o SubSeq(tabs, index + 2, Len(tabs))
             IN [Self EXCEPT !.tabs = rest,
                             !.cancel_flags =
                                 [r \in Refs |-> r \in InUse(rest) /\ cancel_flags[r]],
                             !.active_tab =
                                 IF active_tab >= Len(rest) THEN Len(rest) - 1
                                 ELSE active_tab]
        ELSE Self)

\* Message::CloseTab(index), sent by the button of an existing tab.
CloseTab(index) ==
    Handled("CloseTab",
        IF Len(tabs) > 1
        THEN LET rest == SubSeq(tabs, 1, index) \o SubSeq(tabs, index + 2, Len(tabs))
             IN [Self EXCEPT !.tabs = rest,
                             !.cancel_flags =
                                 [r \in Refs |-> r \in InUse(rest) /\ cancel_flags[r]],
                             !.active_tab =
                                 IF active_tab >= Len(rest) THEN Len(rest) - 1
                                 ELSE IF active_tab > index THEN active_tab - 1
                                 ELSE active_tab]
        ELSE Self)

\* Message::ResponseReceived(resp), applied to current_tab_mut(): a
\* response that is an image or a video leaves the response body, any other
\* response replaces it.
ResponseReceived(resp) ==
    Handled("ResponseReceived",
        LET shown == [Self EXCEPT !.tabs[active_tab + 1].loading = FALSE,
                                  !.tabs[active_tab + 1].response_status = resp.status]
        IN IF resp.is_binary THEN shown
           ELSE [shown EXCEPT !.tabs[active_tab + 1].response_body_content = resp.body])

\* Message::ToggleFindDialog, sent by Ctrl+F.
ToggleFindDialog ==
    Handled("ToggleFindDialog", [Self EXCEPT !.find_dialog_open = ~find_dialog_open])

\* CloseFindDialog that leaves the current match of the highlighter.
CloseFindDialog_KeepsCurrent ==
    /\ find_dialog_open
    /\ Handled("CloseFindDialog",
               [Self EXCEPT !.find_dialog_open = FALSE,
                            !.search_match_positions = <<>>,
                            !.search_match_length = 0,
                            !.current_match = 0,
                            !.total_matches = 0])

\* Message::CloseFindDialog, sent by the close button of the find dialog;
\* the dialog is part of the view while find_dialog_open.
CloseFindDialog ==
    /\ find_dialog_open
    /\ Handled("CloseFindDialog",
               [Self EXCEPT !.find_dialog_open = FALSE,
                            !.search_match_positions = <<>>,
                            !.current_match_line_col = None,
                            !.search_match_length = 0,
                            !.current_match = 0,
                            !.total_matches = 0])

\* Message::FindTextChanged(new_text), sent by the input of the find dialog.
FindTextChanged(new_text) ==
    /\ find_dialog_open
    /\ LET cleared == [Self EXCEPT !.current_match = 0,
                                   !.total_matches = 0,
                                   !.current_match_pos = None,
                                   !.search_match_positions = <<>>,
                                   !.current_match_line_col = None,
                                   !.search_match_length = 0,
                                   !.find_text = new_text]
       IN Handled("FindTextChanged",
                  IF new_text # <<>> THEN find_next(cleared) ELSE cleared)

\* ToggleCaseSensitive that resets the index and does not search again.
ToggleCaseSensitive_NoSearch ==
    /\ find_dialog_open
    /\ LET toggled == [Self EXCEPT !.case_sensitive = ~case_sensitive]
       IN Handled("ToggleCaseSensitive",
                  IF find_text # <<>>
                  THEN [toggled EXCEPT !.current_match = 0]
                  ELSE toggled)

\* Message::ToggleCaseSensitive, sent by a button of the find dialog.
ToggleCaseSensitive ==
    /\ find_dialog_open
    /\ LET toggled == [Self EXCEPT !.case_sensitive = ~case_sensitive]
       IN Handled("ToggleCaseSensitive",
                  IF find_text # <<>>
                  THEN find_next([toggled EXCEPT !.current_match = 0])
                  ELSE toggled)

\* Message::ToggleWholeWord, sent by a button of the find dialog.
ToggleWholeWord ==
    /\ find_dialog_open
    /\ LET toggled == [Self EXCEPT !.whole_word = ~whole_word]
       IN Handled("ToggleWholeWord",
                  IF find_text # <<>>
                  THEN find_next([toggled EXCEPT !.current_match = 0])
                  ELSE toggled)

\* Message::FindNext, sent by a button of the find dialog and by Enter in
\* its input.
FindNext ==
    /\ find_dialog_open
    /\ Handled("FindNext", find_next(Self))

\* Message::FindPrevious: the arm of update is iced::Task::none().
FindPrevious ==
    /\ find_dialog_open
    /\ Handled("FindPrevious", Self)

\* The responses a server gives: binary ones, and text ones with each body.
Responses == [is_binary : BOOLEAN, status : {"200 OK"}, body : Bodies]

\* The application started by CrabiPie::new; no highlighter session and no
\* call of the search engine on its own take part.
AppInit ==
    /\ Init
    /\ settings = JsonHighlighterSettings_new(InitialTheme)
    /\ first = <<>>
    /\ SearchInit

\* update, for the messages that read or write the search state or the
\* text searched.
AppNext ==
    \/ \E index \in 0..(Len(tabs) - 1) :
          TabSelected(index) /\ UNCHANGED <<vars, first, engine_vars, pos_vars, ws_vars, runtime_vars>>
    \/ /\ Len(tabs) < MaxTabs
       /\ AddNewTab /\ UNCHANGED <<vars, first, engine_vars, pos_vars, ws_vars, runtime_vars>>
    \/ \E index \in 0..(Len(tabs) - 1) :
          CloseTab(index) /\ UNCHANGED <<vars, first, engine_vars, pos_vars, ws_vars, runtime_vars>>
    \/ \E resp \in Responses :
          ResponseReceived(resp) /\ UNCHANGED <<vars, first, engine_vars, pos_vars, ws_vars, runtime_vars>>
    \/ ToggleFindDialog /\ UNCHANGED <<vars, first, engine_vars, pos_vars, ws_vars, runtime_vars>>
    \/ CloseFindDialog /\ UNCHANGED <<vars, first, engine_vars, pos_vars, ws_vars, runtime_vars>>
    \/ \E new_text \in FindTexts :
          FindTextChanged(new_text) /\ UNCHANGED <<vars, first, engine_vars, pos_vars, ws_vars, runtime_vars>>
    \/ ToggleCaseSensitive /\ UNCHANGED <<vars, first, engine_vars, pos_vars, ws_vars, runtime_vars>>
    \/ ToggleWholeWord /\ UNCHANGED <<vars, first, engine_vars, pos_vars, ws_vars, runtime_vars>>
    \/ FindNext /\ UNCHANGED <<vars, first, engine_vars, pos_vars, ws_vars, runtime_vars>>
    \/ FindPrevious /\ UNCHANGED <<vars, first, engine_vars, pos_vars, ws_vars, runtime_vars>>

AppSpec == AppInit /\ [][AppNext]_all_vars

\* ------------------------------------------------------------ the tabs

\* update, for the messages of the tab bar.
TabNext ==
    \/ \E index \in 0..(Len(tabs) - 1) :
          TabSelected(index) /\ UNCHANGED <<vars, first, engine_vars, pos_vars, ws_vars, runtime_vars>>
    \/ /\ Len(tabs) < MaxOpenTabs
       /\ AddNewTab /\ UNCHANGED <<vars, first, engine_vars, pos_vars, ws_vars, runtime_vars>>
    \/ \E index \in 0..(Len(tabs) - 1) :
          CloseTab(index) /\ UNCHANGED <<vars, first, engine_vars, pos_vars, ws_vars, runtime_vars>>

TabSpec == AppInit /\ [][TabNext]_all_vars

\* -------------------------------------------------------- the requests

\* The URLs typed into the URL input: nothing, a space, and the URL of a
\* new tab.
Urls == {<<>>, <<" ">>, DefaultUrl}

\* The characters str::trim removes, of those the URLs are made of.
Whitespace == {" ", "\t", "\n", "\r"}

\* url.trim().is_empty()
trim_is_empty(url) == \A k \in 1..Len(url) : url[k] \in Whitespace

\* What a server answers to a request that reaches it: its status line and
\* its body, a text.
ServerResponse == [is_binary |-> FALSE, status |-> "200 OK", body |-> <<"a", "A">>]

\* The HttpResponse the task returns when it finds the cancel flag set.
CancelledResponse ==
    [is_binary |-> FALSE, status |-> "Cancelled",
     body |-> <<"R", "e", "q", "u", "e", "s", "t", " ", "w", "a", "s", " ", "c", "a", "n", "c", "e", "l", "l", "e", "d">>]

\* The HttpResponse the task returns when the request times out.
ErrorResponse ==
    [is_binary |-> FALSE, status |-> "Error",
     body |-> <<"R", "e", "q", "u", "e", "s", "t", " ", "t", "i", "m", "e", "d", " ", "o", "u", "t">>]

\* The text CancelRequest puts into the response body.
CancelledByUser ==
    <<"R", "e", "q", "u", "e", "s", "t", " ", "c", "a", "n", "c", "e", "l", "l", "e", "d", " ", "b", "y", " ", "u", "s", "e", "r">>

\* A step of the runtime: no message is handled, the application is as it
\* was.
Runtime ==
    /\ ~panicked
    /\ msg' = "none"
    /\ UNCHANGED <<tabs, cancel_flags, active_tab, find_dialog_open, find_text,
                   case_sensitive, whole_word, current_match, current_match_pos,
                   total_matches, search_match_positions, current_match_line_col,
                   search_match_length, panicked>>

\* Message::UrlChanged(url), sent by the URL input.
UrlChanged(url) ==
    Handled("UrlChanged", [Self EXCEPT !.tabs[active_tab + 1].url = url])

\* send_request, for the application: the cancel flag of the current tab is
\* cleared.
send_request(self) ==
    [self EXCEPT !.cancel_flags[self.tabs[self.active_tab + 1].cancel_flag] = FALSE]

\* send_request, for the task it returns: the async block, which holds a
\* clone of the Arc of the current tab's cancel flag.  pc is where the task
\* is: "start" before its first look at the cancel flag, "build" before its
\* second, "sending" in request.send().await, "received" before its third
\* look, the response in hand, "read" before its fourth, the body read.
\* cancelled records whether CancelRequest was handled for the tab while
\* the task ran.
send_request_task(self) ==
    [cancel_flag |-> self.tabs[self.active_tab + 1].cancel_flag,
     pc |-> "start",
     cancelled |-> FALSE]

\* Message::SendRequest with no look at loading.
SendRequest_WhileLoading ==
    IF ~trim_is_empty(tabs[active_tab + 1].url)
    THEN /\ Handled("SendRequest",
                    send_request([Self EXCEPT !.tabs[active_tab + 1].loading = TRUE]))
         /\ tasks' = Append(tasks, send_request_task(Self))
    ELSE /\ Handled("SendRequest", Self)
         /\ tasks' = tasks

\* Message::SendRequest, sent by the Send button, by Ctrl+Enter and by
\* Enter in the URL input.
SendRequest ==
    IF ~tabs[active_tab + 1].loading /\ ~trim_is_empty(tabs[active_tab + 1].url)
    THEN /\ Handled("SendRequest",
                    send_request([Self EXCEPT !.tabs[active_tab + 1].loading = TRUE]))
         /\ tasks' = Append(tasks, send_request_task(Self))
    ELSE /\ Handled("SendRequest", Self)
         /\ tasks' = tasks

\* Message::CancelRequest, sent by the Cancel button, which stands in place
\* of the Send button while the current tab is loading.
CancelRequest ==
    LET flag == tabs[active_tab + 1].cancel_flag
    IN /\ tabs[active_tab + 1].loading
       /\ Handled("CancelRequest",
              [Self EXCEPT !.cancel_flags[flag] = TRUE,
                           !.tabs[active_tab + 1].loading = FALSE,
                           !.tabs[active_tab + 1].response_body_content = CancelledByUser,
                           !.tabs[active_tab + 1].response_status = "Cancelled"])
       /\ tasks' = [k \in 1..Len(tasks) |->
                       IF tasks[k].cancel_flag = flag
                       THEN [tasks[k] EXCEPT !.cancelled = TRUE]
                       ELSE tasks[k]]

\* The task k returns resp: the runtime wraps it into
\* Message::ResponseReceived and queues it for update.
Returns(k, resp) ==
    /\ tasks' = SubSeq(tasks, 1, k - 1) \o SubSeq(tasks, k + 1, Len(tasks))
    /\ inbox' = Append(inbox,
                       [is_binary |-> resp.is_binary, status |-> resp.status,
                        body |-> resp.body,
                        cancel_flag |-> tasks[k].cancel_flag,
                        cancelled |-> tasks[k].cancelled])

\* The task k is at position pc and moves on.
Continues(k, pc) ==
    /\ tasks' = [tasks EXCEPT ![k].pc = pc]
    /\ inbox' = inbox

\* One of the four `if cancel_flag.load(Ordering::Relaxed)` of the task k.
CheckCancelled(k) ==
    /\ Runtime
    /\ tasks[k].pc \in {"start", "build", "received", "read"}
    /\ IF cancel_flags[tasks[k].cancel_flag]
       THEN Returns(k, CancelledResponse)
       ELSE CASE tasks[k].pc = "start" -> Continues(k, "build")
              [] tasks[k].pc = "build" -> Continues(k, "sending")
              [] tasks[k].pc = "received" -> Continues(k, "read")
              [] tasks[k].pc = "read" -> Returns(k, ServerResponse)

\* request.send().await of the task k: the server answers, or the request
\* fails.
RequestSend(k, ok) ==
    /\ Runtime
    /\ tasks[k].pc = "sending"
    /\ IF ok THEN Continues(k, "received") ELSE Returns(k, ErrorResponse)

\* The runtime hands the oldest result to update.
Deliver ==
    /\ inbox # <<>>
    /\ ResponseReceived(Head(inbox))
    /\ inbox' = Tail(inbox)
    /\ tasks' = tasks

\* The requests in flight are fewer than n.
InFlight(n) == Len(tasks) + Len(inbox) < n

\* update for the messages of the request in one tab, and the runtime.
ReqNext ==
    \/ \E url \in Urls :
          UrlChanged(url) /\ UNCHANGED <<vars, first, engine_vars, pos_vars, ws_vars, runtime_vars>>
    \/ /\ InFlight(MaxTasks)
       /\ SendRequest /\ UNCHANGED <<vars, first, engine_vars, pos_vars, ws_vars, inbox>>
    \/ CancelRequest /\ UNCHANGED <<vars, first, engine_vars, pos_vars, ws_vars, inbox>>
    \/ \E k \in 1..Len(tasks) :
          CheckCancelled(k) /\ UNCHANGED <<vars, first, engine_vars, pos_vars, ws_vars>>
    \/ \E k \in 1..Len(tasks), ok \in BOOLEAN :
          RequestSend(k, ok) /\ UNCHANGED <<vars, first, engine_vars, pos_vars, ws_vars>>
    \/ Deliver /\ UNCHANGED <<vars, first, engine_vars, pos_vars, ws_vars>>

ReqSpec == AppInit /\ [][ReqNext]_all_vars

\* update for the messages of the tab bar and of the request, and the
\* runtime.
RouteNext ==
    \/ \E index \in 0..(Len(tabs) - 1) :
          TabSelected(index) /\ UNCHANGED <<vars, first, engine_vars, pos_vars, ws_vars, runtime_vars>>
    \/ /\ Len(tabs) < MaxTabs
       /\ AddNewTab /\ UNCHANGED <<vars, first, engine_vars, pos_vars, ws_vars, runtime_vars>>
    \/ \E index \in 0..(Len(tabs) - 1) :
          CloseTab(index) /\ UNCHANGED <<vars, first, engine_vars, pos_vars, ws_vars, runtime_vars>>
    \/ /\ InFlight(MaxRouted)
       /\ SendRequest /\ UNCHANGED <<vars, first, engine_vars, pos_vars, ws_vars, inbox>>
    \/ CancelRequest /\ UNCHANGED <<vars, first, engine_vars, pos_vars, ws_vars, inbox>>
    \/ \E k \in 1..Len(tasks) :
          CheckCancelled(k) /\ UNCHANGED <<vars, first, engine_vars, pos_vars, ws_vars>>
    \/ \E k \in 1..Len(tasks), ok \in BOOLEAN :
          RequestSend(k, ok) /\ UNCHANGED <<vars, first, engine_vars, pos_vars, ws_vars>>
    \/ Deliver /\ UNCHANGED <<vars, first, engine_vars, pos_vars, ws_vars>>

RouteSpec == AppInit /\ [][RouteNext]_all_vars

\* ------------------------------------------------ the websocket stream

\* Largest number of messages the stream yields while it is connected and
\* stays connected.
MaxWsTraffic == 2

\* What is not the stream's.
not_ws_vars ==
    <<vars, first, case_sensitive, whole_word, engine_vars, pos_vars, app_vars,
      runtime_vars>>

\* Message::WsEvent(WsEvent::Error(text)), Message::WsEvent(
\* WsEvent::Connected(_)) and so on, and Message::NoOp; attempt is the
\* number the text is formatted with, 0 when it has none.
WsMessage(kind, content, attempt) == [kind |-> kind, text |-> content, attempt |-> attempt]

\* The text of the last error.
FailedToConnect == "Failed to connect after 3 attempts. Please check the URL and try again."

\* The unfold yields message and goes on from (state, count).
Yields(message, state, count) ==
    /\ ws_yielded' = Append(ws_yielded, message)
    /\ ws_state' = state
    /\ retry_count' = count

\* The messages yielded so far by a stream that stays connected.
Traffic == Len(SelectSeq(ws_yielded, LAMBDA m : m.kind \in {"MessageReceived", "NoOp"}))

\* The arm (WebSocketState::Disconnected, retry_count) with one attempt
\* more.
PollDisconnected_FourAttempts(connected) ==
    /\ ~ws_ended
    /\ ws_state = "Disconnected"
    /\ ws_ended' = ws_ended
    /\ IF retry_count >= 4
       THEN /\ Yields(WsMessage("Error", FailedToConnect, 0), "Failed", retry_count)
            /\ ws_connects' = ws_connects
       ELSE /\ ws_connects' = ws_connects + 1
            /\ IF connected
               THEN Yields(WsMessage("Connected", "", 0), "Connected", 0)
               ELSE Yields(WsMessage("Error", "Connection attempt {} failed: {}",
                                     retry_count + 1),
                           "Disconnected", retry_count + 1)

\* The arm (WebSocketState::Disconnected, retry_count): connect_ws answers
\* with a websocket (connected) or with an error.
PollDisconnected(connected) ==
    /\ ~ws_ended
    /\ ws_state = "Disconnected"
    /\ ws_ended' = ws_ended
    /\ IF retry_count >= 3
       THEN /\ Yields(WsMessage("Error", FailedToConnect, 0), "Failed", retry_count)
            /\ ws_connects' = ws_connects
       ELSE /\ ws_connects' = ws_connects + 1
            /\ IF connected
               THEN Yields(WsMessage("Connected", "", 0), "Connected", 0)
               ELSE Yields(WsMessage("Error", "Connection attempt {} failed: {}",
                                     retry_count + 1),
                           "Disconnected", retry_count + 1)

\* The arm (WebSocketState::Failed, retry_count): None, the stream is over.
PollFailed ==
    /\ ~ws_ended
    /\ ws_state = "Failed"
    /\ ws_ended' = TRUE
    /\ UNCHANGED <<ws_state, retry_count, ws_yielded, ws_connects>>

\* What tokio::select! of the arm WebSocketState::Connected meets: a text
\* from the server, another frame, a receive error, the end of the
\* websocket, a message of the user that is sent, one that fails to be
\* sent.
WsInputs == {"Text", "Other", "Err", "None", "SendOk", "SendErr"}

\* The arm WebSocketState::Connected.
PollConnected(input) ==
    /\ ~ws_ended
    /\ ws_state = "Connected"
    /\ UNCHANGED <<ws_connects, ws_ended>>
    /\ CASE input = "Text" ->
              Traffic < MaxWsTraffic
              /\ Yields(WsMessage("MessageReceived", "text", 0), "Connected", 0)
         [] input = "Other" ->
              Traffic < MaxWsTraffic
              /\ Yields(WsMessage("MessageReceived", "[Other]", 0), "Connected", 0)
         [] input = "SendOk" ->
              Traffic < MaxWsTraffic
              /\ Yields(WsMessage("NoOp", "", 0), "Connected", 0)
         [] input = "Err" ->
              Yields(WsMessage("Disconnected", "{}", 0), "Failed", 0)
         [] input = "None" ->
              Yields(WsMessage("Disconnected", "Connection closed", 0), "Failed", 0)
         [] input = "SendErr" ->
              Yields(WsMessage("Disconnected", "Send error: {}", 0), "Failed", 0)

\* A poll of the stream by the runtime.
WsNext ==
    \/ \E connected \in BOOLEAN : PollDisconnected(connected) /\ UNCHANGED not_ws_vars
    \/ PollFailed /\ UNCHANGED not_ws_vars
    \/ \E input \in WsInputs : PollConnected(input) /\ UNCHANGED not_ws_vars

WsSpec == AppInit /\ [][WsNext]_all_vars

\* The runtime polls the stream of a subscription it holds whenever the
\* stream can go on: connect_ws and the sleep after a failure end.
WsLiveSpec == WsSpec /\ WF_all_vars(WsNext)

\* ------------------------------------------------------------ properties

\* highlight_line has returned: line is its argument, ret its result.
Called == op = "highlight_line"

\* The spans STEP 1 (the tokenizer) produces for the last highlighted line.
SyntaxSpans == SyntaxLoop(settings.theme, line, 0, TRUE, <<>>)

\* The spans of hs, as a set.
SpanSet(hs) == {hs[k] : k \in 1..Len(hs)}

\* The indices of the spans of hs that contain character position q.
SpansAt(hs, q) == {k \in 1..Len(hs) : hs[k].start <= q /\ q < hs[k].end}

\* Position q lies in the range of a match at column col.
InMatch(q, col) == col <= q /\ q < col + settings.match_length

\* The stored search matches highlight_line applies to the last line: on the
\* current line and with col + match_length within the line.
AppliedSearch ==
    {settings.search_matches[k] : k \in
        {j \in 1..Len(settings.search_matches) :
            /\ settings.search_matches[j][1] = current_line_number
            /\ settings.search_matches[j][2] + settings.match_length <= Len(line)}}

\* The stored current match is applied to the last line.
CurrentApplied ==
    /\ settings.current_match # None
    /\ settings.current_match[1] = current_line_number
    /\ settings.current_match[2] + settings.match_length <= Len(line)

\* Position q lies in the applied current match.
InCurrent(q) == CurrentApplied /\ InMatch(q, settings.current_match[2])

\* hs starts at 0, each span starts where the previous one ended, and the
\* last one ends at len.
Contiguous(hs, len) ==
    /\ Len(hs) >= 1
    /\ hs[1].start = 0
    /\ \A k \in 1..(Len(hs) - 1) : hs[k + 1].start = hs[k].end
    /\ hs[Len(hs)].end = len

\* hs is ordered by start offset.
SortedByStart(hs) == \A j, k \in 1..Len(hs) : j < k => hs[j].start <= hs[k].start

\* No character position lies in two spans of hs.
NonOverlapping(hs) ==
    \A j, k \in 1..Len(hs) :
        j < k => ~\E q \in hs[j].start..(hs[j].end - 1) :
                     hs[k].start <= q /\ q < hs[k].end

\* C1: for a non-empty line and no search matches configured, the returned
\* spans are contiguous and cover [0, number of characters) exactly once
\* (whitespace and unclassified characters are spans of their own).
C1_Coverage ==
    (Called /\ line # <<>> /\ settings.search_matches = <<>>
        /\ settings.current_match = None)
    => Contiguous(ret, Len(line))

\* C2: for any line and any settings, the returned sequence is sorted by
\* span start offset and no two returned spans overlap.
C2_SortedNonOverlapping ==
    Called => SortedByStart(ret) /\ NonOverlapping(ret)

\* The overlays of the last call before the final sort.
BeforeSort ==
    ApplyCurrentMatch(
        ApplySearchMatches(SyntaxSpans, settings.search_matches,
            settings.match_length, current_line_number, Len(line)),
        settings.current_match, settings.match_length, current_line_number, Len(line))

\* C2 witness: an overlay was applied and the list was out of order before
\* the sort.
C2_Witness ==
    /\ Called
    /\ line # <<>>
    /\ settings.match_length >= 1
    /\ ~SortedByStart(BeforeSort)
    /\ \E k \in 1..Len(ret) : ret[k].hl = SearchMatch
    /\ \E k \in 1..Len(ret) : ret[k].hl.kind = "Syntax"

\* A search match m applied to the last line overlaps syntax span sp.
Overlaps(m, sp) == \E q \in sp.start..(sp.end - 1) : InMatch(q, m[2])

\* Exactly one returned span contains position q, and its highlight is hl.
HighlightAt(q, hl) ==
    /\ Cardinality(SpansAt(ret, q)) = 1
    /\ \A k \in SpansAt(ret, q) : ret[k].hl = hl

\* C3 as stated: where an in-bounds search match on the current line
\* overlaps a syntax span, the returned spans inside the intersection are
\* SearchMatch, and the rest of the syntax span keeps its Syntax colour.
C3_Original ==
    Called =>
        \A sp \in SpanSet(SyntaxSpans) : \A m \in AppliedSearch :
            Overlaps(m, sp) =>
                \A q \in sp.start..(sp.end - 1) :
                    IF InMatch(q, m[2]) THEN HighlightAt(q, SearchMatch)
                    ELSE HighlightAt(q, sp.hl)

\* C3 amended: inside the intersection the returned spans are SearchMatch,
\* or CurrentMatch where the applied current match also covers them, never
\* Syntax; the positions of the syntax span that lie in no applied search
\* match and not in the applied current match keep the span's Syntax colour.
C3_OverlayPrecedence ==
    Called =>
        \A sp \in SpanSet(SyntaxSpans) : \A m \in AppliedSearch :
            Overlaps(m, sp) =>
                \A q \in sp.start..(sp.end - 1) :
                    IF InMatch(q, m[2])
                    THEN HighlightAt(q, IF InCurrent(q) THEN CurrentMatch
                                        ELSE SearchMatch)
                    ELSE ((\A o \in AppliedSearch : ~InMatch(q, o[2])) /\ ~InCurrent(q))
                         => HighlightAt(q, sp.hl)

\* C3 witness: a search match lies strictly inside a syntax span; the result
\* is the part before it, the SearchMatch part, and the part after it.
C3_Witness ==
    /\ Called
    /\ \E sp \in SpanSet(SyntaxSpans) : \E m \in AppliedSearch :
          /\ sp.start < m[2]
          /\ m[2] + settings.match_length < sp.end
          /\ settings.match_length >= 1
          /\ HighlightAt(sp.start, sp.hl)
          /\ HighlightAt(m[2], SearchMatch)
          /\ HighlightAt(sp.end - 1, sp.hl)

\* The current match is one of the stored search matches.
CurrentIsSearchMatch ==
    \E k \in 1..Len(settings.search_matches) :
        settings.search_matches[k] = settings.current_match

\* C4: when the current match is on the current line, in bounds and at the
\* position of one of the search matches, every returned span over a
\* character of its range is CurrentMatch, not SearchMatch, and the result
\* holds a CurrentMatch span inside the range.
C4_CurrentMatchWins ==
    (Called /\ line # <<>> /\ CurrentApplied /\ CurrentIsSearchMatch) =>
        /\ \A q \in 0..(Len(line) - 1) :
              InCurrent(q) => \A k \in SpansAt(ret, q) : ret[k].hl = CurrentMatch
        /\ \E k \in 1..Len(ret) :
              /\ ret[k].hl = CurrentMatch
              /\ settings.current_match[2] <= ret[k].start
              /\ ret[k].end <= settings.current_match[2] + settings.match_length

\* C4 witness: the current match equals a search match of two characters,
\* another search match is applied too, and both kinds are returned.
C4_Witness ==
    /\ Called
    /\ CurrentApplied
    /\ CurrentIsSearchMatch
    /\ settings.match_length = MaxMatchLen
    /\ Cardinality(AppliedSearch) >= 2
    /\ \E k \in 1..Len(ret) : ret[k].hl = CurrentMatch
    /\ \E k \in 1..Len(ret) : ret[k].hl = SearchMatch

\* C5: a SearchMatch span of the result lies in the range of a stored search
\* match whose line is the current line, and a CurrentMatch span in the
\* range of the stored current match whose line is the current line: a
\* match stored for another line produces no such span.
C5_OnlyCurrentLine ==
    Called =>
        \A k \in 1..Len(ret) :
            /\ ret[k].hl = SearchMatch =>
                  \E j \in 1..Len(settings.search_matches) :
                      /\ settings.search_matches[j][1] = current_line_number
                      /\ settings.search_matches[j][2] <= ret[k].start
                      /\ ret[k].end <= settings.search_matches[j][2]
                                       + settings.match_length
            /\ ret[k].hl = CurrentMatch =>
                  /\ settings.current_match # None
                  /\ settings.current_match[1] = current_line_number
                  /\ settings.current_match[2] <= ret[k].start
                  /\ ret[k].end <= settings.current_match[2] + settings.match_length

\* C5 witness: after change_line, all stored matches and the current match
\* are for another line and would fit the highlighted line; the result holds
\* syntax spans only.
C5_Witness ==
    /\ Called
    /\ changed # <<>>
    /\ Len(settings.search_matches) = MaxMatches
    /\ \A j \in 1..Len(settings.search_matches) :
          /\ settings.search_matches[j][1] # current_line_number
          /\ settings.search_matches[j][2] + settings.match_length <= Len(line)
    /\ settings.current_match # None
    /\ settings.current_match[1] # current_line_number
    /\ settings.match_length >= 1
    /\ ret # <<>>
    /\ \A k \in 1..Len(ret) : ret[k].hl.kind = "Syntax"

\* settings without the matches of the current line that end beyond len.
WithoutOutOfBounds(st, actual_line, len) ==
    [st EXCEPT
        !.search_matches =
            SelectSeq(st.search_matches,
                LAMBDA m : ~(m[1] = actual_line /\ m[2] + st.match_length > len)),
        !.current_match =
            IF @ # None /\ @[1] = actual_line /\ @[2] + st.match_length > len
            THEN None ELSE @]

C7_HighlightLineIsQuery ==
    [][op' = "highlight_line" =>
          /\ current_line_number' = current_line_number
          /\ settings' = settings]_vars

\* C7 witness: highlight_line has returned overlay spans for a line other
\* than line 0, with the session still at that line.
C7_Witness ==
    /\ Called
    /\ current_line_number = OtherLine
    /\ changed = <<OtherLine>>
    /\ settings.search_matches # <<>>
    /\ \E k \in 1..Len(ret) : ret[k].hl = SearchMatch

\* C8: current_line() is 0 while change_line was never called and else the
\* argument of the most recent change_line; update and highlight_line do
\* not change it, and change_line leaves the settings unchanged.
C8_CurrentLine ==
    /\ [](current_line = IF changed = <<>> THEN 0 ELSE changed[1])
    /\ [][op' \in {"update", "highlight_line"} =>
             current_line_number' = current_line_number]_vars
    /\ [][op' = "change_line" => settings' = settings]_vars

\* C8 witness: change_line(OtherLine) was followed by another operation and
\* current_line() still returns OtherLine.
C8_Witness ==
    /\ changed = <<OtherLine>>
    /\ op \in {"update", "highlight_line"}
    /\ current_line = OtherLine

\* C9: the session holds exactly the settings given to new or to the last
\* update (theme, match positions, current match, match length), every
\* highlight_line result is the one those settings alone give, and update
\* leaves the current line number unchanged.
C9_UpdateReplaces ==
    /\ [](settings = given)
    /\ [](Called => ret = highlight_line(line, current_line_number, given))
    /\ [][op' = "update" => current_line_number' = current_line_number]_vars

\* C9 witness: highlight_line has returned overlay spans under a theme that
\* only update can have put in place, at a line other than 0.
C9_Witness ==
    /\ Called
    /\ settings.theme # InitialTheme
    /\ current_line_number = OtherLine
    /\ \E k \in 1..Len(ret) : ret[k].hl = CurrentMatch
    /\ \E k \in 1..Len(ret) : ret[k].hl.kind = "Syntax"

\* C10: highlight_line on the empty line returns the empty span sequence,
\* whatever the current line number and the matches stored for that line.
C10_EmptyLine ==
    (Called /\ line = <<>>) => ret = <<>>

\* C10 witness: the empty line was highlighted while a search match and the
\* current match are stored at column 0 of the current line with match
\* length 0, so both pass the bounds check.
C10_Witness ==
    /\ Called
    /\ line = <<>>
    /\ settings.match_length = 0
    /\ AppliedSearch # {}
    /\ CurrentApplied
    /\ ret = <<>>

\* C25: every position of the line that lies in an in-bounds search match
\* of the current line, or in its in-bounds current match, is covered by a
\* returned span of kind SearchMatch or CurrentMatch.
C25_MatchCovered ==
    Called =>
        \A q \in 0..(Len(line) - 1) :
            (InCurrent(q) \/ \E m \in AppliedSearch : InMatch(q, m[2]))
                => \E k \in SpansAt(ret, q) :
                       ret[k].hl \in {SearchMatch, CurrentMatch}

\* ------------------------------------------------- properties of TokSpec

\* The indices of the returned spans that begin with a double quote.
StringSpans == {k \in 1..Len(ret) : line[ret[k].start + 1] = DQUOTE}

\* Position q of the last line lies in a returned span that begins with a
\* double quote.
InString(q) == \E k \in StringSpans : ret[k].start <= q /\ q < ret[k].end

\* The number of backslashes that immediately precede position p, counted
\* back to the character after the opening quote at position s.
RECURSIVE BackslashRun(_, _, _)
BackslashRun(l, s, p) ==
    IF p - 1 > s /\ l[p] = BACKSLASH THEN 1 + BackslashRun(l, s, p - 1) ELSE 0

\* The character at position p is escaped in the string opened at s: an odd
\* number of backslashes precedes it.
Escaped(l, s, p) == BackslashRun(l, s, p) % 2 = 1

\* The positions of the unescaped quotes after the opening quote at s.
ClosingQuotes(l, s) ==
    {p \in (s + 1)..(Len(l) - 1) : l[p + 1] = DQUOTE /\ ~Escaped(l, s, p)}

\* The least element of a non-empty set of numbers.
Least(S) == CHOOSE p \in S : \A o \in S : p <= o

\* The greatest element of a non-empty set of numbers.
Greatest(S) == CHOOSE p \in S : \A o \in S : p >= o

\* C11: inside a string a backslash followed by a character consumes both
\* and does not end the string: a string span ends just after the first
\* quote that is not escaped, and for the line "key": "a\"b" the value
\* string is the one span [7, 13).
C11_EscapedQuote ==
    Called =>
        /\ \A k \in StringSpans :
              ClosingQuotes(line, ret[k].start) # {} =>
                  ret[k].end = Least(ClosingQuotes(line, ret[k].start)) + 1
        /\ line = EscapedQuoteLine =>
              ret = <<Span(0, 5, Syntax(key_color(settings.theme))),
                      Span(5, 6, Syntax(punctuation_color(settings.theme))),
                      Span(7, 13, Syntax(string_color(settings.theme)))>>

\* C11 witness: the line "key": "a\"b" was highlighted and the value string
\* is one span through the quote after the escaped quote.
C11_Witness ==
    /\ Called
    /\ line = EscapedQuoteLine
    /\ \E k \in 1..Len(ret) : ret[k].start = 7 /\ ret[k].end = 13

\* C12: a string without a later unescaped closing quote is one span from
\* its opening quote to the end of the line, also when the line ends with a
\* backslash inside the string; no span ends beyond the line.
C12_Unterminated ==
    Called =>
        /\ \A k \in StringSpans :
              ClosingQuotes(line, ret[k].start) = {} => ret[k].end = Len(line)
        /\ \A k \in 1..Len(ret) : ret[k].end <= Len(line)

\* C12 witness: the line ends with a backslash inside a string that is not
\* closed, and the string span runs to the end of the line.
C12_Witness ==
    /\ Called
    /\ Len(line) >= 3
    /\ line[Len(line)] = BACKSLASH
    /\ \E k \in StringSpans :
          /\ ClosingQuotes(line, ret[k].start) = {}
          /\ ret[k].start + 1 < Len(line)
          /\ ret[k].end = Len(line)

\* The positions before q, outside strings, of a ':' or a ','.
Separators(q) ==
    {o \in 0..(q - 1) : ~InString(o) /\ line[o + 1] \in {":", ","}}

\* The key/value context at position q of the last line: 'key' unless the
\* last ':' or ',' outside a string before q is a ':'.
ContextIsKey(q) ==
    Separators(q) = {} \/ line[Greatest(Separators(q)) + 1] = ","

\* C13: the key/value context is 'key' at the start of the line, 'value'
\* after a ':' outside a string and 'key' again after a ',' outside a
\* string; a string is coloured as Key in the 'key' context and as String
\* otherwise; ':' and each of , { } [ ] outside a string is a one-character
\* Punctuation span; in {"a": 1, "b": 2} "a" and "b" are Key and ':' and
\* ',' are Punctuation.
C13_KeyValueContext ==
    Called =>
        /\ \A k \in StringSpans :
              ret[k].hl = Syntax(token_color(settings.theme,
                              IF ContextIsKey(ret[k].start) THEN "Key" ELSE "String"))
        /\ \A q \in 0..(Len(line) - 1) :
              (~InString(q) /\ line[q + 1] \in {":", ",", "{", "}", "[", "]"}) =>
                  \E k \in 1..Len(ret) :
                      ret[k] = Span(q, q + 1,
                                   Syntax(token_color(settings.theme, "Punctuation")))
        /\ line = KeyValueLine =>
              /\ \E k \in 1..Len(ret) :
                    ret[k] = Span(1, 4, Syntax(key_color(settings.theme)))
              /\ \E k \in 1..Len(ret) :
                    ret[k] = Span(9, 12, Syntax(key_color(settings.theme)))
              /\ \A q \in {4, 7, 12} : \E k \in 1..Len(ret) :
                    ret[k] = Span(q, q + 1, Syntax(punctuation_color(settings.theme)))

\* C13 witness: a line with a key, a ':', a string value, a ',' and a key
\* again was highlighted, under a theme whose key and string colours differ.
C13_Witness ==
    /\ Called
    /\ key_color(settings.theme) # string_color(settings.theme)
    /\ \E j, k, m \in StringSpans :
          /\ ret[j].end <= ret[k].start
          /\ ret[k].end <= ret[m].start
          /\ ret[j].hl = Syntax(key_color(settings.theme))
          /\ ret[k].hl = Syntax(string_color(settings.theme))
          /\ ret[m].hl = Syntax(key_color(settings.theme))

\* The palette of a theme: the fields of a custom theme, and for a built-in
\* theme the colours the built-in mapping gives each field.
Palette(t) ==
    IF t.tag = "Custom" THEN t.custom
    ELSE [key |-> builtin_key_color(t.theme),
          string |-> builtin_string_color(t.theme),
          number |-> builtin_number_color(t.theme),
          boolean |-> builtin_boolean_color(t.theme),
          null |-> builtin_null_color(t.theme),
          punctuation |-> builtin_punctuation_color(t.theme),
          text |-> builtin_text_color(t.theme)]

\* C31: the colour of every Syntax span highlight_line returns is the
\* colour that the theme of the settings last given to the session (by new
\* or by the last update) assigns to the token kind of the span: the key
\* or string field of the palette for a string, by its context, and the
\* punctuation field for any other span.
C31_ThemeColours ==
    Called =>
        \A k \in 1..Len(ret) :
            ret[k].hl.kind = "Syntax" =>
                ret[k].hl.color =
                    IF k \in StringSpans
                    THEN IF ContextIsKey(ret[k].start)
                         THEN Palette(given.theme).key
                         ELSE Palette(given.theme).string
                    ELSE Palette(given.theme).punctuation

\* A key, a ':' and a string value have been highlighted in the colours of
\* the built-in theme that an update gave the session after new.
C31_Witness ==
    /\ Called
    /\ given.theme = Builtin("SolarizedDark")
    /\ \E i, j, k \in 1..Len(ret) :
          /\ ret[i].hl = Syntax(<<51, 58, 0>>)
          /\ ret[j].hl = Syntax(<<58, 63, 63>>)
          /\ ret[k].hl = Syntax(<<16, 63, 60>>)

\* The characters of a number: a digit or '-' starts one, and these continue it.
Digits == {"0", "1", "2", "3", "4", "5", "6", "7", "8", "9"}
NumberChars == Digits \cup {".", "-", "e", "E", "+"}

\* The end of the maximal run of number characters that starts at p.
RECURSIVE RunEnd(_, _)
RunEnd(l, p) ==
    IF p < Len(l) /\ l[p + 1] \in NumberChars THEN RunEnd(l, p + 1) ELSE p

\* A token can only start at position p of the last line: p is outside a
\* string and is the start of the line, or follows a string, a whitespace
\* or a punctuation character.
TokenStart(p) ==
    /\ ~InString(p)
    /\ \/ p = 0
       \/ InString(p - 1)
       \/ line[p] \in {" ", ":", ",", "{", "}", "[", "]"}

\* l holds the characters of word from position p on.
HasPrefix(l, p, word) ==
    /\ p + Len(word) <= Len(l)
    /\ \A k \in 1..Len(word) : l[p + k] = word[k]

\* C14: outside a string a digit or a '-' starts a Number span over the
\* maximal following run of digits, '.', '-', 'e', 'E', '+', emitted with
\* the theme's number colour.
C14_Number ==
    Called =>
        \A p \in 0..(Len(line) - 1) :
            (TokenStart(p) /\ line[p + 1] \in Digits \cup {"-"}) =>
                \E k \in 1..Len(ret) :
                    ret[k] = Span(p, RunEnd(line, p),
                                 Syntax(number_color(settings.theme)))

\* C15: outside a string the literal true or false produces one Boolean
\* span of 4 or 5 characters and the literal null one Null span of 4
\* characters, with the theme's boolean or null colour.
C15_Literals ==
    Called =>
        \A p \in 0..(Len(line) - 1) :
            TokenStart(p) =>
                /\ HasPrefix(line, p, <<"t", "r", "u", "e">>) =>
                      \E k \in 1..Len(ret) :
                          ret[k] = Span(p, p + 4, Syntax(boolean_color(settings.theme)))
                /\ HasPrefix(line, p, <<"f", "a", "l", "s", "e">>) =>
                      \E k \in 1..Len(ret) :
                          ret[k] = Span(p, p + 5, Syntax(boolean_color(settings.theme)))
                /\ HasPrefix(line, p, <<"n", "u", "l", "l">>) =>
                      \E k \in 1..Len(ret) :
                          ret[k] = Span(p, p + 4, Syntax(null_color(settings.theme)))

\* ------------------------------------------------- properties of DetSpec

Searched == fn # "none"

\* C17: find_matches with an empty pattern returns the empty sequence for
\* every text and every combination of the case-sensitive and whole-word
\* flags.
C17_EmptyPattern ==
    (Searched /\ pattern = <<>>) => matches = Ok(<<>>)

\* C17 witness: the empty pattern was searched for in a non-empty text with
\* both flags on.
C17_Witness ==
    /\ Searched
    /\ pattern = <<>>
    /\ text # <<>>
    /\ case_sensitive
    /\ whole_word
    /\ matches = Ok(<<>>)

\* The string the occurrences are looked for in, and the string looked for:
\* the text and the pattern, both lower-cased when case-sensitive is off.
Haystack == IF case_sensitive THEN text ELSE to_lowercase(text)
Needle == IF case_sensitive THEN pattern ELSE to_lowercase(pattern)

\* The byte offsets at which Needle occurs in Haystack.
Occurrences ==
    {i \in 0..(Len(Haystack) - Len(Needle)) :
        SubSeq(Haystack, i + 1, i + Len(Needle)) = Needle}

\* The occurrence at offset i is a whole word: the character before it and
\* the character after it, if any, are not alphanumeric.
WholeWordAt(i) ==
    /\ i = 0 \/ ~is_alphanumeric(LastChar(Slice(Haystack, 0, i)))
    /\ \/ i + Len(Needle) >= Len(Haystack)
       \/ ~is_alphanumeric(
              FirstChar(Slice(Haystack, i + Len(Needle), Len(Haystack))))

\* offsets is strictly increasing.
StrictlyIncreasing(offsets) ==
    \A j, k \in 1..Len(offsets) : j < k => offsets[j] < offsets[k]

\* Neither the text nor the pattern holds a character of more than one byte.
SingleByte ==
    /\ \A k \in 1..Len(text) : text[k] \notin {"E2"} \cup ContinuationBytes
    /\ \A k \in 1..Len(pattern) : pattern[k] \notin {"E2"} \cup ContinuationBytes

\* C18: with whole-word off and a non-empty pattern, find_matches returns,
\* strictly increasing and without duplicates, exactly the offsets at which
\* the pattern occurs in the text (both lower-cased first when
\* case-sensitive is off), overlapping occurrences included.
C18_AllOccurrences ==
    (Searched /\ ~whole_word /\ pattern # <<>>) =>
        /\ ~matches.panic
        /\ StrictlyIncreasing(matches.val)
        /\ SpanSet(matches.val) = Occurrences

\* C18, for texts and patterns of one-byte characters only.
SingleByte_AllOccurrences ==
    (Searched /\ ~whole_word /\ pattern # <<>> /\ SingleByte) =>
        /\ ~matches.panic
        /\ StrictlyIncreasing(matches.val)
        /\ SpanSet(matches.val) = Occurrences

\* C19: with whole-word on, find_matches returns exactly the occurrences of
\* the pattern whose neighbouring characters, if any, are not alphanumeric;
\* for "Cat cats scatter" and "cat" that is offset 0 when case-insensitive
\* and nothing when case-sensitive, and without whole-word the
\* case-insensitive search gives three matches.
C19_WholeWord ==
    /\ (Searched /\ whole_word /\ pattern # <<>>) =>
          /\ ~matches.panic
          /\ StrictlyIncreasing(matches.val)
          /\ SpanSet(matches.val) = {i \in Occurrences : WholeWordAt(i)}
    /\ (Searched /\ text = CatText /\ pattern = CatPattern) =>
          matches = Ok(IF whole_word
                       THEN IF case_sensitive THEN <<>> ELSE <<0>>
                       ELSE IF case_sensitive THEN <<4, 10>> ELSE <<0, 4, 10>>)

\* C19, for texts and patterns of one-byte characters only.
SingleByte_WholeWord ==
    /\ (Searched /\ whole_word /\ pattern # <<>> /\ SingleByte) =>
          /\ ~matches.panic
          /\ StrictlyIncreasing(matches.val)
          /\ SpanSet(matches.val) = {i \in Occurrences : WholeWordAt(i)}
    /\ (Searched /\ text = CatText /\ pattern = CatPattern) =>
          matches = Ok(IF whole_word
                       THEN IF case_sensitive THEN <<>> ELSE <<0>>
                       ELSE IF case_sensitive THEN <<4, 10>> ELSE <<0, 4, 10>>)

\* C20: find_matches and position_to_line_col never fail: for every text
\* and every non-empty pattern, characters of more than one byte included,
\* the search returns a sequence of offsets, each the byte offset of a
\* character boundary of the text, and their conversion returns too.
C20_NeverFails ==
    (Searched /\ pattern # <<>>) =>
        /\ ~matches.panic
        /\ \A k \in 1..Len(matches.val) :
              /\ matches.val[k] <= Len(text)
              /\ is_char_boundary(text, matches.val[k])
        /\ ~match_positions.panic

\* C20, for texts and patterns of one-byte characters only.
SingleByte_NeverFails ==
    (Searched /\ pattern # <<>> /\ SingleByte) =>
        /\ ~matches.panic
        /\ \A k \in 1..Len(matches.val) :
              /\ matches.val[k] <= Len(text)
              /\ is_char_boundary(text, matches.val[k])
        /\ ~match_positions.panic

\* ----------------------------------------------- properties of PosSpec

\* position_to_line_col has returned (or panicked) for byte_pos in text.
Converted == fn = "position_to_line_col"

\* The number of newlines of txt before the byte offset pos.
NewlinesBefore(txt, pos) == Cardinality({j \in 1..pos : txt[j] = "\n"})

\* pos is the offset of the first character of a line of txt: a character
\* is there, and it begins the text or follows a newline.
LineStart(txt, pos) == pos < Len(txt) /\ (pos = 0 \/ txt[pos] = "\n")

\* C21: for the offset of the first character of line k of the text,
\* position_to_line_col returns (k, 0), k being the number of newlines
\* before that character.
C21_LineStart ==
    Converted /\ LineStart(text, byte_pos)
        => line_col = Ok(<<NewlinesBefore(text, byte_pos), 0>>)

\* The first character of the third line of a text has been converted.
C21_Witness ==
    /\ Converted
    /\ LineStart(text, byte_pos)
    /\ NewlinesBefore(text, byte_pos) = 2
    /\ line_col = Ok(<<2, 0>>)

\* C22: for an offset at or beyond the end of the text, the empty text
\* included, position_to_line_col returns (0, 0) and does not panic.
C22_OutOfRange ==
    Converted /\ byte_pos >= Len(text) => line_col = Ok(<<0, 0>>)

\* An offset beyond the end of a text of more than one line has been
\* converted to (0, 0).
C22_Witness ==
    /\ Converted
    /\ byte_pos > Len(text)
    /\ NewlinesBefore(text, Len(text)) >= 1
    /\ text[Len(text)] # "\n"
    /\ line_col = Ok(<<0, 0>>)

\* The offset at which the line holding the byte offset pos begins.
LineStartOf(txt, pos) ==
    CHOOSE b \in 0..pos :
        /\ b = 0 \/ txt[b] = "\n"
        /\ \A j \in (b + 1)..pos : txt[j] # "\n"

\* C26: for a byte offset inside the text that is a character boundary,
\* position_to_line_col returns the number of newlines before the offset
\* as line and the number of characters between the start of that line
\* and the offset as column; the offset of a newline lies in the line the
\* newline ends.
C26_LineAndColumn ==
    Converted /\ byte_pos < Len(text) /\ is_char_boundary(text, byte_pos)
        => line_col =
             Ok(<<NewlinesBefore(text, byte_pos),
                  Cardinality({c \in LineStartOf(text, byte_pos)..(byte_pos - 1) :
                                  is_char_boundary(text, c)})>>)

\* The newline that ends the second line, after a character of three
\* bytes, has been converted: line 1, column 1, byte column 3.
C26_Witness ==
    /\ Converted
    /\ text = <<"\n">> \o KELVIN \o <<"\n">>
    /\ byte_pos = 4
    /\ line_col = Ok(<<1, 1>>)

\* ----------------------------------------------- properties of AppSpec

\* The application is running: update has not panicked.  After a panic
\* nothing is drawn and no highlighter is handed anything.
Running == ~panicked

C24_CurrentAmongMatches ==
    Running =>
        /\ Len(current_match_line_col) <= 1
        /\ LET st == get_highlighter_settings(Self) IN
           st.current_match # None =>
               \E k \in 1..Len(st.search_matches) :
                   st.search_matches[k] = st.current_match

\* FindNext has moved the current match to the second of three matches,
\* the first of the second line.
C24_Witness ==
    /\ Running
    /\ msg = "FindNext"
    /\ current_match = 2
    /\ search_match_positions = <<<<0, 0>>, <<1, 0>>, <<1, 1>>>>
    /\ get_highlighter_settings(Self).current_match = <<1, 0>>

\* What find_matches returns for the text of the active tab, the find text
\* and the flags of the state.
Found == find_matches(current_tab_text(Self), find_text, case_sensitive, whole_word)

\* The count total and the positions stored are those of the matches of
\* the pattern pat in the text txt under the flags cs and ww.
IsResult(txt, pat, cs, ww, total, stored) ==
    LET found == find_matches(txt, pat, cs, ww) IN
    /\ ~found.panic
    /\ total = Len(found.val)
    /\ LET positions == MapPositions(txt, found.val)
       IN ~positions.panic /\ stored = positions.val

\* The stored count and positions are those of the matches of the find
\* text in the text of the active tab, under the flags of the state.
Fresh ==
    IsResult(tabs[active_tab + 1].response_body_content, find_text, case_sensitive, whole_word,
             total_matches, search_match_positions)

\* C27: a FindNext handled while the dialog is open and the stored matches
\* are the N >= 1 matches of the text, with current match i, leaves the
\* matches as they are, makes i + 1 the current match when i < N and 1
\* when i = N, and sets the current match position to the stored position
\* (and the offset) of that match; the offsets are in document order.
C27_FindNextCycles ==
    [][(/\ msg' = "FindNext"
        /\ find_dialog_open
        /\ Fresh
        /\ total_matches >= 1
        /\ current_match \in 1..total_matches)
       => /\ ~panicked'
          /\ current_match' = IF current_match < total_matches
                               THEN current_match + 1 ELSE 1
          /\ total_matches' = total_matches
          /\ search_match_positions' = search_match_positions
          /\ current_match_line_col' = Some(search_match_positions[current_match'])
          /\ current_match_pos' = Some(Found.val[current_match'])
          /\ StrictlyIncreasing(Found.val)]_all_vars

\* FindNext has moved the current match from the second to the third of
\* the three matches of the find text in the text of the active tab.
C27_Witness ==
    /\ Running
    /\ msg = "FindNext"
    /\ find_dialog_open
    /\ Fresh
    /\ total_matches = 3
    /\ current_match = 3
    /\ current_match_pos = Some(3)
    /\ current_match_line_col = Some(<<1, 1>>)

\* C28: a FindPrevious handled while the dialog is open and the stored
\* matches are the N >= 1 matches of the text, with current match i, makes
\* i - 1 the current match when i > 1 and N when i is 1 or 0, and sets the
\* current match position to the stored position of that match.
C28_FindPrevious ==
    [][(/\ msg' = "FindPrevious"
        /\ find_dialog_open
        /\ Fresh
        /\ total_matches >= 1)
       => /\ current_match' = IF current_match > 1
                               THEN current_match - 1 ELSE total_matches
          /\ current_match_line_col' = Some(search_match_positions'[current_match'])]_all_vars

\* C29: while the application runs, stored match positions come with the
\* number of characters of the find text as match length, and without
\* stored match positions no current match position is set.
C29_MatchLength ==
    Running =>
        /\ search_match_positions # <<>> =>
               search_match_length =
                   Cardinality({c \in 0..(Len(find_text) - 1) :
                                   is_char_boundary(find_text, c)})
        /\ search_match_positions = <<>> => current_match_line_col = None

\* A find text of one character of three bytes has been typed and found:
\* the match length is 1.
C29_Witness ==
    /\ Running
    /\ msg = "FindTextChanged"
    /\ find_text = KELVIN
    /\ search_match_positions = <<<<0, 0>>>>
    /\ search_match_length = 1

\* C30: a message handled while the dialog is open that leaves it open with
\* a non-empty find text and changes the find text, a flag or the text of
\* the active tab leaves the stored positions and count as the result of
\* searching that text for that find text under those flags.
C30_SearchedAfterChange ==
    [][(/\ Running
        /\ find_dialog_open
        /\ find_dialog_open'
        /\ find_text' # <<>>
        /\ \/ find_text' # find_text
           \/ case_sensitive' # case_sensitive
           \/ whole_word' # whole_word
           \/ tabs'[active_tab' + 1].response_body_content
                  # tabs[active_tab + 1].response_body_content)
       => /\ ~panicked'
          /\ IsResult(tabs'[active_tab' + 1].response_body_content, find_text', case_sensitive',
                      whole_word', total_matches', search_match_positions')]_all_vars

\* C32: while the application runs with the find dialog closed, the
\* settings handed to the highlighter hold no match positions, no current
\* match and the match length 0.
C32_ClosedNoHighlights ==
    Running /\ ~find_dialog_open =>
        LET st == get_highlighter_settings(Self) IN
        /\ st.search_matches = <<>>
        /\ st.current_match = None
        /\ st.match_length = 0

\* C33: while the application runs, the settings handed to the highlighter
\* of the request-body editor and to that of the response-headers editor
\* hold no match positions and no current match: the positions found in
\* the response body go to the response-body editor only.
C33_OnlyResponseBody ==
    Running =>
        \A st \in {render_body_tab(Self), render_response_headers(Self)} :
            st.search_matches = <<>> /\ st.current_match = None

\* ----------------------------------------------- properties of ReqSpec

\* update handles the Message::ResponseReceived of the oldest result in
\* this step.
Receives == msg' = "ResponseReceived" /\ inbox # <<>>

\* The result is what the server answered, not what the task made up.
FromServer(resp) == resp.status = ServerResponse.status

\* C34: the answer of the server to a request that was cancelled is never
\* applied: when update handles the result of a task for whose tab
\* CancelRequest was handled while it ran, and the result is the server's
\* answer, the status and the body of every tab stay as they are.
C34_CancelledNotApplied ==
    [][(Receives /\ Head(inbox).cancelled /\ FromServer(Head(inbox)))
          => \A k \in 1..Len(tabs) :
                /\ tabs'[k].response_status = tabs[k].response_status
                /\ tabs'[k].response_body_content = tabs[k].response_body_content]_all_vars

\* C39: when update handles SendRequest while the active tab is not loading
\* and its URL is not blank, the tab is loading afterwards and one request
\* has been started, with the cancel flag of that tab; otherwise no request
\* is started and nothing of the application changes.
C39_SendRequestGuarded ==
    [][msg' = "SendRequest"
          => IF ~tabs[active_tab + 1].loading /\ ~trim_is_empty(tabs[active_tab + 1].url)
             THEN /\ tabs'[active_tab' + 1].loading
                  /\ Len(tasks') = Len(tasks) + 1
                  /\ SubSeq(tasks', 1, Len(tasks)) = tasks
                  /\ tasks'[Len(tasks')].pc = "start"
                  /\ tasks'[Len(tasks')].cancel_flag = tabs[active_tab + 1].cancel_flag
             ELSE UNCHANGED <<tabs, cancel_flags, active_tab, tasks, inbox,
                              find_dialog_open, find_text, case_sensitive, whole_word,
                              current_match, current_match_pos, total_matches,
                              search_match_positions, current_match_line_col,
                              search_match_length, panicked>>]_all_vars

\* SendRequest has been handled a second time for a tab whose first
\* request was cancelled: the tab is loading and two tasks run, the second
\* of them not started yet.
C39_Witness ==
    /\ msg = "SendRequest"
    /\ tabs[active_tab + 1].loading
    /\ Len(tasks) = 2
    /\ tasks[1].cancelled
    /\ tasks[2].pc = "start"

\* --------------------------------------------- properties of RouteSpec

\* C35: the result of a request is applied to the tab that sent it: when
\* update handles the result of a task, the tab that holds the cancel flag
\* the task was started with shows the status of the result and is no
\* longer loading, and every other tab stays as it is.
C35_AppliedToSender ==
    [][Receives
          => \A k \in 1..Len(tabs) :
                IF tabs[k].cancel_flag = Head(inbox).cancel_flag
                THEN /\ tabs'[k].response_status = Head(inbox).status
                     /\ ~tabs'[k].loading
                ELSE tabs'[k] = tabs[k]]_all_vars

\* ----------------------------------------------- properties of TabSpec

\* C36: after any sequence of AddNewTab, CloseTab(i) and TabSelected(i)
\* with every i below the number of tabs, there is at least one tab and
\* active_tab is the index of a tab; CloseTab on the only tab changes
\* neither the tabs nor the active tab.
C36_ActiveTabValid ==
    /\ [](Len(tabs) >= 1 /\ active_tab \in 0..(Len(tabs) - 1))
    /\ [][(msg' = "CloseTab" /\ Len(tabs) = 1)
             => UNCHANGED <<tabs, cancel_flags, active_tab>>]_all_vars

\* The last tab was active and has been closed: the tab before it is the
\* active one now, and more than one tab is left.
C36_Witness ==
    /\ msg = "CloseTab"
    /\ Len(tabs) >= 2
    /\ active_tab = Len(tabs) - 1

\* The tab that is active before the step is still open after it.
ActiveTabStays == \E j \in 1..Len(tabs') : tabs'[j].cancel_flag = tabs[active_tab + 1].cancel_flag

\* C37: when CloseTab closes a tab other than the active one, the tab that
\* was active is the active tab afterwards, with the state it had.
C37_SameTabActive ==
    [][(msg' = "CloseTab" /\ Len(tabs') < Len(tabs) /\ ActiveTabStays)
          => tabs'[active_tab' + 1] = tabs[active_tab + 1]]_all_vars

\* CloseTab has left three tabs, those allocated second, third and fourth,
\* and the third is the active one, at index 1: the state after the first
\* of four tabs is closed while the tab at index 2 is active.
C37_Witness ==
    /\ msg = "CloseTab"
    /\ Len(tabs) = 3
    /\ tabs[1].cancel_flag = 1 /\ tabs[2].cancel_flag = 2 /\ tabs[3].cancel_flag = 3
    /\ active_tab = 1

\* -------------------------------------------- properties of WsLiveSpec

\* How many messages of the kind the stream has yielded.
Yielded(kind) == Len(SelectSeq(ws_yielded, LAMBDA m : m.kind = kind))

\* How many times the stream has yielded the last error.
FinalErrors == Len(SelectSeq(ws_yielded, LAMBDA m : m.kind = "Error" /\ m.text = FailedToConnect))

\* The stream has yielded the errors of three failed attempts, numbered 1
\* to 3, then the last error, and nothing else.
ThreeFailuresThenFinal ==
    /\ Len(ws_yielded) = 4
    /\ \A k \in 1..3 :
          /\ ws_yielded[k].kind = "Error"
          /\ ws_yielded[k].text # FailedToConnect
          /\ ws_yielded[k].attempt = k
    /\ ws_yielded[4] = WsMessage("Error", FailedToConnect, 0)

\* C38: the stream calls connect_ws at most 3 times.  It yields the last
\* error at most once, and only after the errors of three failed attempts
\* in a row and nothing else; after the third failure it yields the last
\* error and then ends.  It connects at most once, with no attempt after the
\* connection; it yields Disconnected at most once, as its last message
\* and after a connection, and after that it ends.  It ends only after the
\* last error or a Disconnected.
C38_ThreeAttempts ==
    /\ [](/\ ws_connects <= 3
          /\ FinalErrors <= 1
          /\ FinalErrors = 1 => ThreeFailuresThenFinal /\ ws_connects = 3
          /\ Yielded("Connected") <= 1
          /\ Yielded("Connected") = 1 => ws_connects = Yielded("Error") + 1
          /\ Yielded("Disconnected") <= 1
          /\ Yielded("Disconnected") = 1
                => /\ Yielded("Connected") = 1
                   /\ ws_yielded[Len(ws_yielded)].kind = "Disconnected"
                   /\ ws_state = "Failed"
          /\ ws_ended => FinalErrors = 1 \/ Yielded("Disconnected") = 1)
    /\ ((ws_state = "Disconnected" /\ retry_count = 3) ~> (ws_ended /\ FinalErrors = 1))
    /\ ((Yielded("Disconnected") = 1) ~> ws_ended)

\* Three attempts have failed, the last error has been yielded and the
\* stream has ended.
C38_Witness ==
    /\ ws_ended
    /\ ws_connects = 3
    /\ ThreeFailuresThenFinal

====
